---- MODULE Spec2Model ----
(***************************************************************************)
(* The compiled pipeline of the lisp interpreter: the symbol table and the *)
(* bytecode compiler (compiler/), the instruction encoder (code/), the     *)
(* virtual machine (vm/) and the builtin functions the programs below use  *)
(* (object/builtins).                                                      *)
(*                                                                         *)
(* Byte positions in instruction sequences are 0-based as in the source;   *)
(* the byte at position p of ins is ins[p + 1].                            *)
(***************************************************************************)
EXTENDS Integers, Sequences, FiniteSets, TLC

(***************************************************************************)
(* vm/vm.go: limits                                                        *)
(***************************************************************************)
StackSize == 2048
GlobalSize == 65536
MaxFrames == 1024

(***************************************************************************)
(* code: opcodes (iota order), operand widths, Make, ReadUint16            *)
(***************************************************************************)
OpConstant == 0
OpPop == 1
OpTrue == 2
OpFalse == 3
OpJumpWhenFalse == 4
OpJump == 5
OpNull == 6
OpGetGlobal == 7
OpSetGlobal == 8
OpCall == 9
OpReturn == 10
OpGetLocal == 11
OpSetLocal == 12
OpEmptyList == 13
OpGetBuiltin == 14
OpClosure == 15
OpGetFree == 16
OpCurrentClosure == 17

definitions ==
    [op \in 0..17 |->
        CASE op \in {OpConstant, OpJumpWhenFalse, OpJump, OpGetGlobal, OpSetGlobal} -> <<2>>
          [] op \in {OpCall, OpGetLocal, OpSetLocal, OpGetBuiltin, OpGetFree} -> <<1>>
          [] op = OpClosure -> <<2, 1>>
          [] OTHER -> <<>>]

\* a two-byte operand with the low byte first
EncodeOperandLittleEndian(width, o) ==
    IF width = 2 THEN <<o % 256, (o \div 256) % 256>> ELSE <<o % 256>>

\* one operand in width bytes, big endian, truncated like uint16(o) / byte(o)
EncodeOperand(width, o) ==
    IF width = 2 THEN <<(o \div 256) % 256, o % 256>> ELSE <<o % 256>>

RECURSIVE EncodeOperands(_, _, _)
EncodeOperands(widths, operands, i) ==
    IF i > Len(operands) THEN
        \* operands the caller did not pass stay zero bytes
        IF i > Len(widths) THEN <<>>
        ELSE [j \in 1..widths[i] |-> 0] \o EncodeOperands(widths, operands, i + 1)
    ELSE EncodeOperand(widths[i], operands[i]) \o EncodeOperands(widths, operands, i + 1)

Make(op, operands) ==
    IF op \notin DOMAIN definitions THEN <<>>
    ELSE <<op>> \o EncodeOperands(definitions[op], operands, 1)

\* big-endian uint16 at 0-based position p of ins
ReadUint16(ins, p) == ins[p + 1] * 256 + ins[p + 2]

\* ReadOperands(def, ins): the operands read so far and the offset reached
RECURSIVE ReadOperandsFrom(_, _, _, _, _)
ReadOperandsFrom(widths, ins, i, operands, offset) ==
    IF i > Len(widths) THEN [operands |-> operands, offset |-> offset]
    ELSE ReadOperandsFrom(widths, ins, i + 1,
                          Append(operands, IF widths[i] = 2 THEN ReadUint16(ins, offset)
                                           ELSE ins[offset + 1]),
                          offset + widths[i])

ReadOperands(def, ins) == ReadOperandsFrom(def, ins, 1, <<>>, 0)

(***************************************************************************)
(* compiler/symbol_table.go                                                *)
(***************************************************************************)
GlobalScope == "GLOBAL"
LocalScope == "LOCAL"
BuiltinScope == "BUILTIN"
FreeScope == "FREE"
FunctionScope == "FUNCTION"

Symbol(name, scope, index) == [Name |-> name, Scope |-> scope, Index |-> index]

\* a table; its outer table is the one below it in the sequence of tables
NewSymbolTable == [store |-> <<>>, count |-> 0, FreeSymbols |-> <<>>]

\* a Define for which the first definition of a name wins
DefineFirstWins(tables, lvl, s) ==
    IF s \in DOMAIN tables[lvl].store
    THEN [tables |-> tables, sym |-> tables[lvl].store[s]]
    ELSE LET st == tables[lvl]
             sym == Symbol(s, IF lvl = 1 THEN GlobalScope ELSE LocalScope, st.count)
         IN [tables |-> [tables EXCEPT ![lvl] =
                             [st EXCEPT !.store = (s :> sym) @@ st.store,
                                        !.count = st.count + 1]],
             sym |-> sym]

\* the tables are the chain current .. root, root first; lvl 1 has no outer
Define(tables, lvl, s) ==
    LET st == tables[lvl]
        sym == Symbol(s, IF lvl = 1 THEN GlobalScope ELSE LocalScope, st.count)
    IN [tables |-> [tables EXCEPT ![lvl] =
                        [st EXCEPT !.store = (s :> sym) @@ st.store,
                                   !.count = st.count + 1]],
        sym |-> sym]

\* a DefineBuiltin that takes an index of the table like Define
DefineBuiltinCounting(st, index, name) ==
    [st EXCEPT !.store = (name :> Symbol(name, BuiltinScope, index)) @@ st.store,
               !.count = st.count + 1]

DefineBuiltin(st, index, name) ==
    [st EXCEPT !.store = (name :> Symbol(name, BuiltinScope, index)) @@ st.store]

\* a defineFree that does not enter the free Symbol in the store
defineFreeUnstored(st, original) ==
    [st |-> [st EXCEPT !.FreeSymbols = Append(st.FreeSymbols, original)],
     sym |-> Symbol(original.Name, FreeScope, Len(st.FreeSymbols))]

defineFree(st, original) ==
    LET free == Symbol(original.Name, FreeScope, Len(st.FreeSymbols))
    IN [st |-> [st EXCEPT !.FreeSymbols = Append(st.FreeSymbols, original),
                          !.store = (original.Name :> free) @@ st.store],
        sym |-> free]

\* a table that does not learn the name of its function
DefineNoFunctionName(st, name) == st

DefineFunctionName(st, name) ==
    [st EXCEPT !.store = (name :> Symbol(name, FunctionScope, 0)) @@ st.store]

NoSymbol == Symbol("", "", 0)

RECURSIVE Resolve(_, _, _)
Resolve(tables, lvl, s) ==
    IF s \in DOMAIN tables[lvl].store THEN
        [tables |-> tables, sym |-> tables[lvl].store[s], ok |-> TRUE]
    ELSE IF lvl > 1 THEN
        LET r == Resolve(tables, lvl - 1, s) IN
        IF r.ok /\ r.sym.Scope # BuiltinScope /\ r.sym.Scope # GlobalScope THEN
            LET d == defineFree(r.tables[lvl], r.sym) IN
            [tables |-> [r.tables EXCEPT ![lvl] = d.st], sym |-> d.sym, ok |-> TRUE]
        ELSE r
    ELSE [tables |-> tables, sym |-> NoSymbol, ok |-> FALSE]

(***************************************************************************)
(* ast: expressions.  Fn of "()" is NoFn.                                  *)
(***************************************************************************)
IntegerLiteral(n) == [k |-> "int", v |-> n]
StringLiteral(str) == [k |-> "str", s |-> str]
Identifier(name) == [k |-> "id", name |-> name]
NoFn == [k |-> "nil"]
SExpression(fn, args) == [k |-> "sexp", Fn |-> fn, Args |-> args, Name |-> ""]

\* Expression.String() of the head of an S-expression, as far as the
\* dispatch on "if" / "def" / "lambda" can tell
FnString(fn) ==
    CASE fn.k = "id" -> fn.name
      [] fn.k = "str" -> fn.s
      [] OTHER -> "(...)"

(***************************************************************************)
(* object: values.  Booleans and Null carry the address of their object,   *)
(* because the VM compares them by identity.                               *)
(***************************************************************************)
Integer(n) == [t |-> "INTEGER", v |-> n]
String(str) == [t |-> "STRING", s |-> str]
TRUE_OBJ == [t |-> "BOOL", b |-> TRUE, addr |-> "object.TRUE"]
FALSE_OBJ == [t |-> "BOOL", b |-> FALSE, addr |-> "object.FALSE"]
NULL_OBJ == [t |-> "NULL", addr |-> "object.NULL"]
\* the nil interface value of a slot that was never assigned
Nil == [t |-> "nil"]
ErrorObject(msg) == [t |-> "ERROR", Error |-> msg]
CompiledLambda(ins, locals, params) ==
    [t |-> "COMPILED_FUNCTION_OBJ", Instructions |-> ins,
     LocalsCount |-> locals, ParameterCount |-> params]

\* object.Builtins, in table order; OpGetBuiltin i names entry i (0-based)
BuiltinNames ==
    <<"+", "*", "-", "/", "rem", "=", "<", ">", "not", "and", "or", "list",
      "dict", "first", "rest", "last", "len", "push", "push!", "pop!", "str",
      "print", "get", "set">>

FunctionObject(i) == [t |-> "FUNCTION", Name |-> BuiltinNames[i + 1], index |-> i]

(***************************************************************************)
(* compiler/compiler.go                                                    *)
(***************************************************************************)
EmittedInstruction(op, pos) == [Opcode |-> op, Position |-> pos]

CompilationScope ==
    [instructions |-> <<>>,
     lastInstruction |-> EmittedInstruction(0, 0),
     previousInstruction |-> EmittedInstruction(0, 0)]

RECURSIVE DefineBuiltins(_, _)
DefineBuiltins(st, i) ==
    IF i >= Len(BuiltinNames) THEN st
    ELSE DefineBuiltins(DefineBuiltin(st, i, BuiltinNames[i + 1]), i + 1)

\* compiler.New(): err = <<>> stands for a nil error
New ==
    [constants |-> <<>>,
     symbolTable |-> <<DefineBuiltins(NewSymbolTable, 0)>>,
     scopes |-> <<CompilationScope>>,
     scopeIndex |-> 0,
     err |-> <<>>,
     notes |-> [names |-> <<>>, defined |-> <<>>, refs |-> <<>>, free |-> <<>>]]

\* Bookkeeping of the compilation, read by the properties only: for each
\* open lambda scope, outermost first, the Name of the lambda and the names
\* that Define has entered in its table so far (parameters and local defs);
\* every identifier that was resolved, with the open scopes at that moment
\* and the opcode that getSymbol emitted for it;
\* and the FreeSymbols of each compiled lambda by its constant index.
noteEnter(c, name) ==
    [c EXCEPT !.notes.names = Append(@, name), !.notes.defined = Append(@, {})]
noteDefine(c, name) ==
    IF Len(c.notes.defined) = 0 THEN c
    ELSE [c EXCEPT !.notes.defined[Len(c.notes.defined)] = @ \cup {name}]
noteLeave(c, constIndex, freeSymbols) ==
    [c EXCEPT !.notes.names = SubSeq(@, 1, Len(@) - 1),
              !.notes.defined = SubSeq(@, 1, Len(@) - 1),
              !.notes.free = (constIndex :> freeSymbols) @@ @]
noteRef(c, name, sym) ==
    [c EXCEPT !.notes.refs =
        Append(@, [name |-> name, sym |-> sym,
                   op |-> c.scopes[c.scopeIndex + 1].lastInstruction.Opcode,
                   names |-> c.notes.names, defined |-> c.notes.defined])]

\* a compiler that reports no error
NoErrorf(c, msg) == c

\* return fmt.Errorf(msg)
Errorf(c, msg) == [c EXCEPT !.err = msg]

currentInstructions(c) == c.scopes[c.scopeIndex + 1].instructions

\* addConstant returns the index Len(c.constants) of the constant it appends
addConstant(c, obj) == [c EXCEPT !.constants = Append(c.constants, obj)]

\* emit = addInstruction + setLastInstruction; it returns the position
\* Len(currentInstructions(c)) of the new instruction
emit(c, op, operands) ==
    LET i == c.scopeIndex + 1
        pos == Len(c.scopes[i].instructions)
    IN [c EXCEPT !.scopes[i] =
            [instructions |-> c.scopes[i].instructions \o Make(op, operands),
             lastInstruction |-> EmittedInstruction(op, pos),
             previousInstruction |-> c.scopes[i].lastInstruction]]

\* a compiler that patches no instruction
keepInstruction(c, pos, newInstruction) == c

replaceInstruction(c, pos, newInstruction) ==
    LET i == c.scopeIndex + 1
        ins == c.scopes[i].instructions
    IN [c EXCEPT !.scopes[i].instructions =
            [j \in 1..Len(ins) |->
                IF j - 1 >= pos /\ j - 1 < pos + Len(newInstruction)
                THEN newInstruction[j - pos] ELSE ins[j]]]

\* a compiler that leaves the placeholder operands of the jumps
keepOperand(c, opPos, operand) == c

\* a changeOperand that makes the instruction jump to itself
changeOperandToItself(c, opPos, operand) ==
    replaceInstruction(c, opPos, Make(currentInstructions(c)[opPos + 1], <<opPos>>))

changeOperand(c, opPos, operand) ==
    replaceInstruction(c, opPos, Make(currentInstructions(c)[opPos + 1], <<operand>>))

enterScope(c) ==
    [c EXCEPT !.scopes = Append(c.scopes, CompilationScope),
              !.scopeIndex = c.scopeIndex + 1,
              !.symbolTable = Append(c.symbolTable, NewSymbolTable)]

\* a leaveScope that keeps the enclosed table as the active one
leaveScopeKeepingTable(c) ==
    [c EXCEPT !.scopes = SubSeq(c.scopes, 1, Len(c.scopes) - 1),
              !.scopeIndex = c.scopeIndex - 1]

\* leaveScope returns currentInstructions(c) of the scope it pops
leaveScope(c) ==
    [c EXCEPT !.scopes = SubSeq(c.scopes, 1, Len(c.scopes) - 1),
              !.scopeIndex = c.scopeIndex - 1,
              !.symbolTable = SubSeq(c.symbolTable, 1, Len(c.symbolTable) - 1)]

getSymbol(c, sym) ==
    CASE sym.Scope = GlobalScope -> emit(c, OpGetGlobal, <<sym.Index>>)
      [] sym.Scope = LocalScope -> emit(c, OpGetLocal, <<sym.Index>>)
      [] sym.Scope = BuiltinScope -> emit(c, OpGetBuiltin, <<sym.Index>>)
      [] sym.Scope = FreeScope -> emit(c, OpGetFree, <<sym.Index>>)
      [] sym.Scope = FunctionScope -> emit(c, OpCurrentClosure, <<>>)
      [] OTHER -> c

\* a compiler that loads no free symbol before OpClosure
getNoSymbols(c, syms, i) == c

RECURSIVE getSymbols(_, _, _)
getSymbols(c, syms, i) ==
    IF i > Len(syms) THEN c ELSE getSymbols(getSymbol(c, syms[i]), syms, i + 1)

RECURSIVE Compile(_, _)
RECURSIVE compileArgs(_, _, _)
RECURSIVE compileBody(_, _, _)
RECURSIVE defineParams(_, _, _)
RECURSIVE compileIfExpression(_, _)
RECURSIVE compileDefExpression(_, _)
RECURSIVE compileLambdaExpression(_, _)
RECURSIVE compileCallExpression(_, _)

\* the arguments of a call, in order, stopping at the first error
compileArgs(c, args, i) ==
    IF i > Len(args) \/ c.err # <<>> THEN c
    ELSE compileArgs(Compile(c, args[i]), args, i + 1)

\* the expressions of a program or of a lambda body, OpPop after each
compileBody(c, exprs, i) ==
    IF i > Len(exprs) THEN c
    ELSE LET c1 == Compile(c, exprs[i]) IN
         IF c1.err # <<>> THEN c1
         ELSE compileBody(emit(c1, OpPop, <<>>), exprs, i + 1)

compileIfExpression(c, expr) ==
    IF Len(expr.Args) < 2 \/ Len(expr.Args) > 3 THEN
        Errorf(c, <<"incorrect number of values in if expression">>)
    ELSE
    LET c1 == Compile(c, expr.Args[1]) IN
    IF c1.err # <<>> THEN c1 ELSE
    LET conditionalJumpPos == Len(currentInstructions(c1))
        c2 == emit(c1, OpJumpWhenFalse, <<9999>>)
        c3 == Compile(c2, expr.Args[2])
    IN
    IF c3.err # <<>> THEN c3 ELSE
    LET jumpPos == Len(currentInstructions(c3))
        c4 == emit(c3, OpJump, <<9999>>)
        positionAfterConsequence == Len(currentInstructions(c4))
        c5 == changeOperand(c4, conditionalJumpPos, positionAfterConsequence)
        c6 == IF Len(expr.Args) < 3 THEN emit(c5, OpNull, <<>>)
              ELSE Compile(c5, expr.Args[3])
    IN
    IF c6.err # <<>> THEN c6
    ELSE changeOperand(c6, jumpPos, Len(currentInstructions(c6)))

compileDefExpression(c, expr) ==
    IF Len(expr.Args) # 2 THEN
        Errorf(c, <<"incorrect number of values in def expression">>)
    ELSE IF expr.Args[1].k # "id" THEN
        Errorf(c, <<"first argument to def must be identifier">>)
    ELSE
    LET name == expr.Args[1].name
        d == Define(c.symbolTable, Len(c.symbolTable), name)
        c1 == noteDefine([c EXCEPT !.symbolTable = d.tables], name)
        \* sExpr.Name = name.Token.Literal
        rhs == IF expr.Args[2].k = "sexp"
               THEN [expr.Args[2] EXCEPT !.Name = name] ELSE expr.Args[2]
        c2 == Compile(c1, rhs)
    IN
    IF c2.err # <<>> THEN c2
    ELSE IF Len(c2.symbolTable) = 1 THEN emit(c2, OpSetGlobal, <<d.sym.Index>>)
    ELSE emit(c2, OpSetLocal, <<d.sym.Index>>)

\* Define each parameter; the first that is not an identifier is an error
defineParams(c, params, i) ==
    IF i > Len(params) THEN c
    ELSE IF params[i].k # "id" THEN
        Errorf(c, <<"function parameters must be identifiers">>)
    ELSE defineParams(
            noteDefine([c EXCEPT !.symbolTable =
                            Define(c.symbolTable, Len(c.symbolTable), params[i].name).tables],
                       params[i].name),
            params, i + 1)

compileLambdaExpression(c, expr) ==
    IF Len(expr.Args) < 1 THEN
        Errorf(c, <<"not enough arguments for lambda definition">>)
    ELSE
    LET c1 == noteEnter(enterScope(c), expr.Name)
        lvl == Len(c1.symbolTable)
        c2 == IF expr.Name # ""
              THEN [c1 EXCEPT !.symbolTable[lvl] =
                        DefineFunctionName(c1.symbolTable[lvl], expr.Name)]
              ELSE c1
        paramList == expr.Args[1]
    IN
    IF paramList.k # "sexp" THEN Errorf(c2, <<"provided args must be a list">>)
    ELSE
    LET params == IF paramList.Fn.k # "nil"
                  THEN <<paramList.Fn>> \o paramList.Args ELSE <<>>
        c3 == defineParams(c2, params, 1)
    IN
    IF c3.err # <<>> THEN c3 ELSE
    LET expressions == SubSeq(expr.Args, 2, Len(expr.Args))
        c4 == IF Len(expressions) = 0
              THEN emit(emit(c3, OpNull, <<>>), OpReturn, <<>>)
              ELSE compileBody(c3, expressions, 1)
    IN
    IF c4.err # <<>> THEN c4 ELSE
    LET c5 == IF Len(expressions) = 0 THEN c4
              ELSE replaceInstruction(c4, Len(currentInstructions(c4)) - 1, <<OpReturn>>)
        freeSymbols == c5.symbolTable[lvl].FreeSymbols
        localsCount == c5.symbolTable[lvl].count
        ins == currentInstructions(c5)
        c6 == noteLeave(leaveScope(c5), Len(c5.constants), freeSymbols)
        compiledLambda == CompiledLambda(ins, localsCount, Len(params))
        c7 == getSymbols(c6, freeSymbols, 1)
    IN emit(addConstant(c7, compiledLambda), OpClosure,
            <<Len(c7.constants), Len(freeSymbols)>>)

compileCallExpression(c, expr) ==
    LET c1 == Compile(c, expr.Fn) IN
    IF c1.err # <<>> THEN c1 ELSE
    LET c2 == compileArgs(c1, expr.Args, 1) IN
    IF c2.err # <<>> THEN c2
    ELSE emit(c2, OpCall, <<Len(expr.Args)>>)

Compile(c, expr) ==
    CASE expr.k = "program" -> compileBody(c, expr.Expressions, 1)
      [] expr.k = "sexp" ->
            IF expr.Fn.k = "nil" THEN emit(c, OpEmptyList, <<>>)
            ELSE CASE FnString(expr.Fn) = "if" -> compileIfExpression(c, expr)
                   [] FnString(expr.Fn) = "def" -> compileDefExpression(c, expr)
                   [] FnString(expr.Fn) = "lambda" -> compileLambdaExpression(c, expr)
                   [] OTHER -> compileCallExpression(c, expr)
      [] expr.k = "int" -> emit(addConstant(c, Integer(expr.v)), OpConstant, <<Len(c.constants)>>)
      [] expr.k = "str" -> emit(addConstant(c, String(expr.s)), OpConstant, <<Len(c.constants)>>)
      [] expr.k = "id" ->
            CASE expr.name = "true" -> emit(c, OpTrue, <<>>)
              [] expr.name = "false" -> emit(c, OpFalse, <<>>)
              [] expr.name = "null" -> emit(c, OpNull, <<>>)
              [] OTHER ->
                    LET r == Resolve(c.symbolTable, Len(c.symbolTable), expr.name) IN
                    IF ~r.ok THEN Errorf(c, <<"undefined variable ", expr.name>>)
                    ELSE noteRef(getSymbol([c EXCEPT !.symbolTable = r.tables], r.sym),
                                 expr.name, r.sym)
      [] OTHER -> c

Program(exprs) == [k |-> "program", Expressions |-> exprs]

\* Bytecode()
Bytecode(c) == [Instructions |-> currentInstructions(c), Constants |-> c.constants]

(***************************************************************************)
(* object: closures, lists and dictionaries.  Objects that the program can *)
(* tell apart by identity or mutate carry their address.  A list is a Go   *)
(* slice: a window (off, len, cap) on a backing array; backing array 0 is  *)
(* the operand stack of the VM, array NilArray is the nil slice.           *)
(***************************************************************************)
\* a *object.Closure value; the Closure itself, [Lambda, Free], is on the heap
ClosureRef(a) == [t |-> "CLOSURE", addr |-> a]
Closure(lambda, free) == [Lambda |-> lambda, Free |-> free]
List(a) == [t |-> "LIST", addr |-> a]
Dictionary(a) == [t |-> "DICT", addr |-> a]

NilArray == -1
StackArray == 0
Slice(arr, off, len, cap) == [arr |-> arr, off |-> off, len |-> len, cap |-> cap]

\* index of the main program's lambda, which is not in the constants pool
MainLambda == -1

(***************************************************************************)
(* object: HashKey.  A uint64 is its 8 bytes, least significant first.     *)
(***************************************************************************)
\* uint64(n) for an int64 n within the model's integer range
Uint64(n) == [i \in 1..8 |-> IF i <= 3 THEN (n \div (256 ^ (i - 1))) % 256
                             ELSE IF i = 4 THEN (n \div 16777216) % 256
                             ELSE IF n < 0 THEN 255 ELSE 0]

RECURSIVE XorBits(_, _, _)
XorBits(a, b, n) ==
    IF n = 0 THEN 0
    ELSE (((a % 2) + (b % 2)) % 2) + 2 * XorBits(a \div 2, b \div 2, n - 1)

\* h * 0x100000001b3 mod 2^64 = (h << 40) + h * 0x1b3
RECURSIVE MulSmall(_, _, _, _)
MulSmall(h, m, i, carry) ==
    IF i > 8 THEN <<>>
    ELSE LET v == h[i] * m + carry IN <<v % 256>> \o MulSmall(h, m, i + 1, v \div 256)

RECURSIVE AddBytes(_, _, _, _)
AddBytes(a, b, i, carry) ==
    IF i > 8 THEN <<>>
    ELSE LET v == a[i] + b[i] + carry IN <<v % 256>> \o AddBytes(a, b, i + 1, v \div 256)

FnvPrimeMul(h) ==
    AddBytes([i \in 1..8 |-> IF i <= 5 THEN 0 ELSE h[i - 5]], MulSmall(h, 435, 1, 0), 1, 0)

\* offset basis 0xcbf29ce484222325
FnvOffset == <<37, 35, 34, 132, 228, 156, 242, 203>>

RECURSIVE Fnv64a(_, _, _)
Fnv64a(h, bytes, i) ==
    IF i > Len(bytes) THEN h
    ELSE Fnv64a(FnvPrimeMul([h EXCEPT ![1] = XorBits(h[1], bytes[i], 8)]), bytes, i + 1)

Hashable(obj) == obj.t \in {"INTEGER", "BOOL", "STRING"}

HashKey(obj) ==
    CASE obj.t = "INTEGER" -> [Type |-> "INTEGER", Value |-> Uint64(obj.v)]
      [] obj.t = "BOOL" -> [Type |-> "STRING", Value |-> Uint64(IF obj.b THEN 1 ELSE 0)]
      [] obj.t = "STRING" -> [Type |-> "STRING", Value |-> Fnv64a(FnvOffset, obj.s, 1)]

(***************************************************************************)
(* object/builtins.  A builtin receives args = vm.stack[base : base+n],   *)
(* a slice of the operand stack itself.  m is the machine (stack and heap);*)
(* a builtin yields the machine it leaves and its result.  Panic is the    *)
(* outcome of a Go runtime panic inside the builtin.                       *)
(***************************************************************************)
Panic == [t |-> "PANIC"]

\* vm.stack[i]: the model keeps the slots that were assigned, every other
\* slot holds the nil interface value
Slot(m, i) == IF i \in DOMAIN m.stack THEN m.stack[i] ELSE Nil
SetSlot(m, i, o) == [m EXCEPT !.stack = (i :> o) @@ @]

Outcome(m, result) == [m |-> m, result |-> result]

\* Type() and Inspect() of a nil interface value dereference nil
BadTypeError(fn, obj) ==
    IF obj.t = "nil" THEN Panic
    ELSE ErrorObject(<<"attempted to call ", fn, " with unsupported type ",
                       obj.t, " (", ToString(obj), ")">>)

BadKeyError(obj) ==
    IF obj.t = "nil" THEN Panic
    ELSE ErrorObject(<<"attempted to use unsupported type as dict key ",
                       obj.t, " (", ToString(obj), ")">>)

NoArgsError(fn) == ErrorObject(<<"attempted to call ", fn, " with no arguments">>)

WrongNumOfArgsError(fn, expected, got) ==
    ErrorObject(<<"attempted to call ", fn,
                  " with incorrect number of arguments: expected ", expected,
                  ", got=", ToString(got)>>)

evalTruthy(obj) ==
    IF obj.t = "BOOL" THEN obj.b
    ELSE IF obj.t = "NULL" THEN FALSE
    ELSE TRUE

\* element i (0-based) of the backing array of a slice
ArrayAt(m, arr, i) == IF arr = StackArray THEN Slot(m, i) ELSE m.arrays[arr][i + 1]

\* the elements of a list, Values[0 .. len - 1]
Values(m, a) ==
    LET sl == m.lists[a] IN [i \in 1..sl.len |-> ArrayAt(m, sl.arr, sl.off + i - 1)]

\* index of the first argument that is not an Integer, -1 if there is none
RECURSIVE FirstNonNumber(_, _, _, _)
FirstNonNumber(m, base, n, i) ==
    IF i >= n THEN -1
    ELSE IF Slot(m, base + i).t # "INTEGER" THEN i
    ELSE FirstNonNumber(m, base, n, i + 1)

RECURSIVE Sum(_, _, _, _)
Sum(m, base, n, i) ==
    IF i >= n THEN 0 ELSE Slot(m, base + i).v + Sum(m, base, n, i + 1)

\* "+": Float arguments are outside the programs of this model
BuiltinAdd(m, base, n) ==
    LET bad == FirstNonNumber(m, base, n, 0) IN
    IF bad >= 0 THEN Outcome(m, BadTypeError("+", Slot(m, base + bad)))
    ELSE Outcome(m, Integer(Sum(m, base, n, 0)))

\* "-"
BuiltinSub(m, base, n) ==
    LET bad == FirstNonNumber(m, base, n, 0) IN
    IF n = 0 THEN Outcome(m, NoArgsError("-"))
    ELSE IF bad >= 0 THEN Outcome(m, BadTypeError("-", Slot(m, base + bad)))
    ELSE IF n = 1 THEN Outcome(m, Integer(0 - Slot(m, base).v))
    ELSE Outcome(m, Integer(Slot(m, base).v - Sum(m, base + 1, n - 1, 0)))

\* "<": every number is greater than the one before it
BuiltinLess(m, base, n) ==
    LET bad == FirstNonNumber(m, base, n, 0) IN
    IF n = 0 THEN Outcome(m, WrongNumOfArgsError("<", "at least 1", 0))
    ELSE IF bad >= 0 THEN Outcome(m, BadTypeError("<", Slot(m, base + bad)))
    ELSE IF \E i \in 1..(n - 1) : Slot(m, base + i).v <= Slot(m, base + i - 1).v
         THEN Outcome(m, FALSE_OBJ)
    ELSE Outcome(m, TRUE_OBJ)

\* a not that allocates the Boolean it returns
BuiltinNotAllocating(m, base, n) ==
    IF n # 1 THEN Outcome(m, WrongNumOfArgsError("not", "1", n))
    ELSE IF Slot(m, base).t = "nil" THEN Outcome(m, Panic)
    ELSE IF Slot(m, base).t = "ERROR" THEN Outcome(m, Slot(m, base))
    ELSE Outcome(m, [t |-> "BOOL", b |-> ~evalTruthy(Slot(m, base)), addr |-> "allocated"])

\* "not"
BuiltinNot(m, base, n) ==
    IF n # 1 THEN Outcome(m, WrongNumOfArgsError("not", "1", n))
    ELSE IF Slot(m, base).t = "nil" THEN Outcome(m, Panic)
    ELSE IF Slot(m, base).t = "ERROR" THEN Outcome(m, Slot(m, base))
    ELSE IF evalTruthy(Slot(m, base)) THEN Outcome(m, FALSE_OBJ)
    ELSE Outcome(m, TRUE_OBJ)

\* "list": the List keeps the args slice, a window on the operand stack
BuiltinList(m, base, n) ==
    Outcome([m EXCEPT !.lists = (m.nextAddr :> Slice(StackArray, base, n, StackSize - base)) @@ m.lists,
                      !.nextAddr = m.nextAddr + 1],
            List(m.nextAddr))

\* "len"
BuiltinLen(m, base, n) ==
    IF n # 1 THEN Outcome(m, WrongNumOfArgsError("len", "1", n))
    ELSE LET obj == Slot(m, base) IN
         CASE obj.t = "nil" -> Outcome(m, Panic)
           [] obj.t = "LIST" -> Outcome(m, Integer(m.lists[obj.addr].len))
           [] obj.t = "STRING" -> Outcome(m, Integer(Len(obj.s)))
           [] OTHER -> Outcome(m, BadTypeError("len", obj))

\* capacity of the array that append allocates when a slice of capacity
\* old has to hold need elements (Go doubles small capacities)
GrowCap(old, need) == IF 2 * old >= need THEN 2 * old ELSE need

\* append(slice of list a, x): in place when the capacity allows, which
\* writes the backing array beyond the slice's length
AppendValue(m, a, x) ==
    LET sl == m.lists[a] IN
    IF sl.len < sl.cap THEN
        IF sl.arr = StackArray THEN
            [SetSlot(m, sl.off + sl.len, x) EXCEPT !.lists[a].len = sl.len + 1]
        ELSE
            [m EXCEPT !.arrays[sl.arr][sl.off + sl.len + 1] = x,
                      !.lists[a].len = sl.len + 1]
    ELSE
        LET cap == GrowCap(sl.cap, sl.len + 1)
            old == Values(m, a)
        IN [m EXCEPT !.arrays = (m.nextAddr :>
                                    [i \in 1..cap |-> IF i <= sl.len THEN old[i]
                                                      ELSE IF i = sl.len + 1 THEN x
                                                      ELSE Nil]) @@ m.arrays,
                     !.lists[a] = Slice(m.nextAddr, 0, sl.len + 1, cap),
                     !.nextAddr = m.nextAddr + 1]

\* "push!"
BuiltinPushBang(m, base, n) ==
    IF n # 2 THEN Outcome(m, WrongNumOfArgsError("push", "2", n))
    ELSE IF Slot(m, base).t = "nil" THEN Outcome(m, Panic)
    ELSE IF Slot(m, base).t # "LIST" THEN
        Outcome(m, ErrorObject(<<"first argument to concat should be list. got=",
                                 ToString(Slot(m, base))>>))
    ELSE Outcome(AppendValue(m, Slot(m, base).addr, Slot(m, base + 1)), Slot(m, base))

\* "dict": the pairs are entered in order, a later equal key replaces
RECURSIVE DictItems(_, _, _, _, _)
DictItems(m, base, n, i, items) ==
    IF i >= n - 1 THEN [items |-> items, bad |-> -1]
    ELSE LET obj == Slot(m, base + i) IN
         IF ~Hashable(obj) THEN [items |-> items, bad |-> i]
         ELSE DictItems(m, base, n, i + 2,
                        (HashKey(obj) :> [Key |-> obj, Value |-> Slot(m, base + i + 1)]) @@ items)

BuiltinDict(m, base, n) ==
    IF n % 2 # 0 THEN Outcome(m, WrongNumOfArgsError("dict", "even number", n))
    ELSE LET r == DictItems(m, base, n, 0, <<>>) IN
         IF r.bad >= 0 THEN Outcome(m, BadKeyError(Slot(m, base + r.bad)))
         ELSE Outcome([m EXCEPT !.dicts = (m.nextAddr :> r.items) @@ m.dicts,
                               !.nextAddr = m.nextAddr + 1],
                      Dictionary(m.nextAddr))

\* "push": make([]Object, len), copy, append: append has no spare capacity
\* and allocates the array of the new List
BuiltinPush(m, base, n) ==
    IF n # 2 THEN Outcome(m, WrongNumOfArgsError("push", "2", n))
    ELSE IF Slot(m, base).t = "nil" THEN Outcome(m, Panic)
    ELSE IF Slot(m, base).t # "LIST" THEN
        Outcome(m, ErrorObject(<<"first argument to concat should be list. got=",
                                 ToString(Slot(m, base))>>))
    ELSE LET old == Values(m, Slot(m, base).addr)
             cap == GrowCap(Len(old), Len(old) + 1)
             newList == [i \in 1..cap |-> IF i <= Len(old) THEN old[i]
                                          ELSE IF i = Len(old) + 1 THEN Slot(m, base + 1)
                                          ELSE Nil]
         IN Outcome([m EXCEPT !.arrays = (m.nextAddr :> newList) @@ m.arrays,
                              !.lists = (m.nextAddr + 1 :>
                                            Slice(m.nextAddr, 0, Len(old) + 1, cap)) @@ m.lists,
                              !.nextAddr = m.nextAddr + 2],
                    List(m.nextAddr + 1))

\* "pop!": the slice is cut by one, its array keeps the element
BuiltinPopBang(m, base, n) ==
    IF n # 1 THEN Outcome(m, WrongNumOfArgsError("pop", "1", n))
    ELSE IF Slot(m, base).t = "nil" THEN Outcome(m, Panic)
    ELSE IF Slot(m, base).t # "LIST" THEN
        Outcome(m, ErrorObject(<<"argument to pop should be list. got=",
                                 ToString(Slot(m, base))>>))
    ELSE LET a == Slot(m, base).addr
             sl == m.lists[a]
         IN IF sl.len = 0 THEN Outcome(m, ErrorObject(<<"attemped to pop from empty list">>))
            ELSE Outcome([m EXCEPT !.lists[a].len = sl.len - 1],
                         ArrayAt(m, sl.arr, sl.off + sl.len - 1))

\* a slice or index expression outside the bounds of the slice
OutOfRange == [t |-> "PANIC", Error |-> <<"index out of range">>]

\* "first": list.Values[0]
BuiltinFirst(m, base, n) ==
    IF n # 1 THEN Outcome(m, WrongNumOfArgsError("first", "1", n))
    ELSE IF Slot(m, base).t = "nil" THEN Outcome(m, Panic)
    ELSE IF Slot(m, base).t # "LIST" THEN Outcome(m, BadTypeError("first", Slot(m, base)))
    ELSE LET sl == m.lists[Slot(m, base).addr] IN
         IF sl.len = 0 THEN Outcome(m, OutOfRange)
         ELSE Outcome(m, ArrayAt(m, sl.arr, sl.off))

\* "rest": the new List holds list.Values[1:], a slice of the same array
BuiltinRest(m, base, n) ==
    IF n # 1 THEN Outcome(m, WrongNumOfArgsError("rest", "1", n))
    ELSE IF Slot(m, base).t = "nil" THEN Outcome(m, Panic)
    ELSE IF Slot(m, base).t # "LIST" THEN Outcome(m, BadTypeError("rest", Slot(m, base)))
    ELSE LET sl == m.lists[Slot(m, base).addr] IN
         IF sl.len = 0 THEN Outcome(m, OutOfRange)
         ELSE Outcome([m EXCEPT !.lists = (m.nextAddr :>
                                             Slice(sl.arr, sl.off + 1, sl.len - 1, sl.cap - 1))
                                          @@ m.lists,
                               !.nextAddr = m.nextAddr + 1],
                      List(m.nextAddr))

\* "last": list.Values[len(list.Values)-1]
BuiltinLast(m, base, n) ==
    IF n # 1 THEN Outcome(m, WrongNumOfArgsError("last", "1", n))
    ELSE IF Slot(m, base).t = "nil" THEN Outcome(m, Panic)
    ELSE IF Slot(m, base).t # "LIST" THEN Outcome(m, BadTypeError("last", Slot(m, base)))
    ELSE LET sl == m.lists[Slot(m, base).addr] IN
         IF sl.len = 0 THEN Outcome(m, OutOfRange)
         ELSE Outcome(m, ArrayAt(m, sl.arr, sl.off + sl.len - 1))

\* "get": the errors for a wrong number of arguments and for a key that is
\* not Hashable are built and not returned, so args[1] is indexed and
\* HashKey is called on a nil Hashable
BuiltinGet(m, base, n) ==
    IF n < 2 THEN Outcome(m, OutOfRange)
    ELSE LET dictObj == Slot(m, base)
             keyObj == Slot(m, base + 1)
         IN IF dictObj.t = "nil" THEN Outcome(m, Panic)
            ELSE IF dictObj.t # "DICT" THEN
                Outcome(m, ErrorObject(<<"attempted to get from ", dictObj.t, "(",
                                         ToString(dictObj), ") instead of dict">>))
            ELSE IF ~Hashable(keyObj) THEN Outcome(m, Panic)
            ELSE IF HashKey(keyObj) \in DOMAIN m.dicts[dictObj.addr]
                 THEN Outcome(m, m.dicts[dictObj.addr][HashKey(keyObj)].Value)
            ELSE Outcome(m, NULL_OBJ)

\* "set", with the same unreturned errors
BuiltinSet(m, base, n) ==
    IF n < 3 THEN Outcome(m, OutOfRange)
    ELSE LET dictObj == Slot(m, base)
             keyObj == Slot(m, base + 1)
             value == Slot(m, base + 2)
         IN IF dictObj.t = "nil" THEN Outcome(m, Panic)
            ELSE IF dictObj.t # "DICT" THEN
                Outcome(m, ErrorObject(<<"attempted to get from ", dictObj.t, "(",
                                         ToString(dictObj), ") instead of dict">>))
            ELSE IF ~Hashable(keyObj) THEN Outcome(m, Panic)
            ELSE Outcome([m EXCEPT !.dicts[dictObj.addr] =
                                      (HashKey(keyObj) :> [Key |-> keyObj, Value |-> value]) @@ @],
                         dictObj)

\* "=": every argument is compared with the first by the type of the first
\* (numsEqual, stringsEqual, boolEqual, functionsEqual); a first argument of
\* any other type, a *Closure among them, is the default case.  Float
\* arguments are outside the programs of this model.
BuiltinEquals(m, base, n) ==
    IF n = 0 THEN Outcome(m, TRUE_OBJ)
    ELSE LET obj == Slot(m, base)
             Same(arg) ==
                arg.t = obj.t /\
                CASE obj.t = "INTEGER" -> arg.v = obj.v
                  [] obj.t = "STRING" -> arg.s = obj.s
                  [] obj.t = "BOOL" -> arg.b = obj.b
                  [] obj.t = "FUNCTION" -> arg.Name = obj.Name
         IN IF obj.t \in {"INTEGER", "STRING", "BOOL", "FUNCTION"} THEN
                IF \A i \in 1..(n - 1) : Same(Slot(m, base + i))
                THEN Outcome(m, TRUE_OBJ) ELSE Outcome(m, FALSE_OBJ)
            ELSE Outcome(m, BadTypeError("=", obj))

\* the builtins that the programs of this model call
ModelledBuiltins ==
    {"+", "-", "<", "not", "list", "len", "push!", "dict", "push", "pop!", "get", "set", "=",
     "first", "rest", "last"}

ApplyBuiltin(m, name, base, n) ==
    CASE name = "+" -> BuiltinAdd(m, base, n)
      [] name = "-" -> BuiltinSub(m, base, n)
      [] name = "<" -> BuiltinLess(m, base, n)
      [] name = "not" -> BuiltinNot(m, base, n)
      [] name = "list" -> BuiltinList(m, base, n)
      [] name = "len" -> BuiltinLen(m, base, n)
      [] name = "push!" -> BuiltinPushBang(m, base, n)
      [] name = "dict" -> BuiltinDict(m, base, n)
      [] name = "push" -> BuiltinPush(m, base, n)
      [] name = "pop!" -> BuiltinPopBang(m, base, n)
      [] name = "get" -> BuiltinGet(m, base, n)
      [] name = "set" -> BuiltinSet(m, base, n)
      [] name = "=" -> BuiltinEquals(m, base, n)
      [] name = "first" -> BuiltinFirst(m, base, n)
      [] name = "rest" -> BuiltinRest(m, base, n)
      [] name = "last" -> BuiltinLast(m, base, n)

(***************************************************************************)
(* The programs.  Strings are their bytes.                                 *)
(***************************************************************************)
Id(name) == Identifier(name)
S(fn, args) == SExpression(fn, args)
I(n) == IntegerLiteral(n)
Call(name, args) == SExpression(Identifier(name), args)
Lambda(params, body) ==
    SExpression(Identifier("lambda"),
                <<IF Len(params) = 0 THEN SExpression(NoFn, <<>>)
                  ELSE SExpression(params[1], Tail(params))>> \o body)
Def(name, expr) == SExpression(Identifier("def"), <<Identifier(name), expr>>)
If3(c, a, b) == SExpression(Identifier("if"), <<c, a, b>>)
If2(c, a) == SExpression(Identifier("if"), <<c, a>>)
EmptyList == SExpression(NoFn, <<>>)

\* number of local definitions in the body of the lambda of program 16
LocalDefs == 40

\* no expected value is known for the program
NoValue == [t |-> "none"]

Prog(exprs, expected) == [ast |-> Program(exprs), expected |-> expected]

\* the values whose truthiness the programs test
TruthOperands ==
    <<Id("true"), Id("false"), Id("null"), I(0), I(7), StringLiteral(<<>>),
      StringLiteral(<<104, 105>>), EmptyList, Call("list", <<I(1)>>),
      Call("dict", <<>>), Call("dict", <<I(1), I(2)>>),
      Lambda(<<>>, <<>>), Id("not"), If2(Id("false"), I(1))>>

\* (if x 1 2) (not x)
TruthProgram(x) == Prog(<<If3(x, I(1), I(2)), Call("not", <<x>>)>>, NoValue)

\* programs 40 to 51: a malformed form at the top level, in an argument, in
\* a branch or in the body of a lambda
MalformedPrograms ==
    << \* (if 1)
       Prog(<<S(Id("if"), <<I(1)>>)>>, NoValue),
       \* (if 1 2 3 4)
       Prog(<<S(Id("if"), <<I(1), I(2), I(3), I(4)>>)>>, NoValue),
       \* (def x)
       Prog(<<S(Id("def"), <<Id("x")>>)>>, NoValue),
       \* (def x 1 2)
       Prog(<<S(Id("def"), <<Id("x"), I(1), I(2)>>)>>, NoValue),
       \* (def 1 2)
       Prog(<<S(Id("def"), <<I(1), I(2)>>)>>, NoValue),
       \* (lambda x 1)
       Prog(<<S(Id("lambda"), <<Id("x"), I(1)>>)>>, NoValue),
       \* (lambda (a 1) a)
       Prog(<<S(Id("lambda"), <<S(Id("a"), <<I(1)>>), Id("a")>>)>>, NoValue),
       \* (def f (lambda (a) (if a (g a) 1)))
       Prog(<<Def("f", Lambda(<<Id("a")>>,
                              <<If3(Id("a"), Call("g", <<Id("a")>>), I(1))>>))>>, NoValue),
       \* (+ 1 (if))
       Prog(<<Call("+", <<I(1), S(Id("if"), <<>>)>>)>>, NoValue),
       \* (def h (lambda (a) (lambda (b) (def (c) 1))))
       Prog(<<Def("h", Lambda(<<Id("a")>>,
                              <<Lambda(<<Id("b")>>,
                                       <<S(Id("def"), <<S(Id("c"), <<>>), I(1)>>)>>)>>))>>, NoValue),
       \* (lambda)
       Prog(<<S(Id("lambda"), <<>>)>>, NoValue),
       \* (def f (lambda (p) p)) p
       Prog(<<Def("f", Lambda(<<Id("p")>>, <<Id("p")>>)), Id("p")>>, NoValue)
    >>

\* the 8 bytes whose FNV-1a hash of 64 bits is 0
ZeroHashString == <<213, 107, 185, 83, 66, 135, 8, 54>>

\* programs 52 to 61: lists, dictionaries and equality
CollectionPrograms ==
    << \* (def l ()) (push! l 1) (def r (push l 2)) (push! r 3) (pop! r) (pop! r) (len l)
       Prog(<<Def("l", EmptyList), Call("push!", <<Id("l"), I(1)>>),
              Def("r", Call("push", <<Id("l"), I(2)>>)),
              Call("push!", <<Id("r"), I(3)>>), Call("pop!", <<Id("r")>>),
              Call("pop!", <<Id("r")>>), Call("len", <<Id("l")>>)>>, Integer(1)),
       \* (def m (list 7)) (def l ()) (len (push l 3))
       Prog(<<Def("m", Call("list", <<I(7)>>)), Def("l", EmptyList),
              Call("len", <<Call("push", <<Id("l"), I(3)>>)>>)>>, NoValue),
       \* (def l ()) (push! l 1) (pop! (push! l 2)) (len l)
       Prog(<<Def("l", EmptyList), Call("push!", <<Id("l"), I(1)>>),
              Call("pop!", <<Call("push!", <<Id("l"), I(2)>>)>>),
              Call("len", <<Id("l")>>)>>, Integer(1)),
       \* (pop! ())
       Prog(<<Call("pop!", <<EmptyList>>)>>, NoValue),
       \* (def l (list 1 2)) (pop! (push! l 9))
       Prog(<<Def("l", Call("list", <<I(1), I(2)>>)),
              Call("pop!", <<Call("push!", <<Id("l"), I(9)>>)>>)>>, NoValue),
       \* (def d (dict 1 10)) (get (set d 2 20) 2) (set d "a" 5) (set d true 6)
       \* (get d 1) (get d false)
       Prog(<<Def("d", Call("dict", <<I(1), I(10)>>)),
              Call("get", <<Call("set", <<Id("d"), I(2), I(20)>>), I(2)>>),
              Call("set", <<Id("d"), StringLiteral(<<97>>), I(5)>>),
              Call("set", <<Id("d"), Id("true"), I(6)>>),
              Call("get", <<Id("d"), I(1)>>),
              Call("get", <<Id("d"), Id("false")>>)>>, NULL_OBJ),
       \* (def d (dict)) (set d false 1) (set d "..." 2) (get d false), the
       \* string being ZeroHashString
       Prog(<<Def("d", Call("dict", <<>>)),
              Call("set", <<Id("d"), Id("false"), I(1)>>),
              Call("set", <<Id("d"), StringLiteral(ZeroHashString), I(2)>>),
              Call("get", <<Id("d"), Id("false")>>)>>, NoValue),
       \* (def f (lambda () 1)) (def g (lambda () 1)) (= f f)
       Prog(<<Def("f", Lambda(<<>>, <<I(1)>>)), Def("g", Lambda(<<>>, <<I(1)>>)),
              Call("=", <<Id("f"), Id("f")>>)>>, NoValue),
       \* (def f (lambda () 1)) (def g (lambda () 1)) (= f g)
       Prog(<<Def("f", Lambda(<<>>, <<I(1)>>)), Def("g", Lambda(<<>>, <<I(1)>>)),
              Call("=", <<Id("f"), Id("g")>>)>>, NoValue),
       \* (= 1 1) (= "a" "a") (= true true) (= len len) (= 1 "a") (= 1 1 2) (=)
       Prog(<<Call("=", <<I(1), I(1)>>),
              Call("=", <<StringLiteral(<<97>>), StringLiteral(<<97>>)>>),
              Call("=", <<Id("true"), Id("true")>>),
              Call("=", <<Id("len"), Id("len")>>),
              Call("=", <<I(1), StringLiteral(<<97>>)>>),
              Call("=", <<I(1), I(1), I(2)>>),
              Call("=", <<>>)>>, TRUE_OBJ)
    >>

\* programs 62 to 65: if in a branch of an if, without alternative, among the
\* arguments of a pending call, and before the end of a lambda body
IfPrograms ==
    << \* (if true (if false 1 2) 3)
       Prog(<<If3(Id("true"), If3(Id("false"), I(1), I(2)), I(3))>>, Integer(2)),
       \* (if false 1 (if null 2))
       Prog(<<If3(Id("false"), I(1), If2(Id("null"), I(2)))>>, NULL_OBJ),
       \* (+ (if 1 10) (if false 1 20) (if (not 1) 1 (+ 2 3)))
       Prog(<<Call("+", <<If2(I(1), I(10)), If3(Id("false"), I(1), I(20)),
                         If3(Call("not", <<I(1)>>), I(1), Call("+", <<I(2), I(3)>>))>>)>>,
            Integer(35)),
       \* (def g (lambda (a) (if a (def b 5) (+ a 1)) 7)) (g true)
       Prog(<<Def("g", Lambda(<<Id("a")>>,
                              <<If3(Id("a"), Def("b", I(5)), Call("+", <<Id("a"), I(1)>>)),
                                I(7)>>)),
              Call("g", <<Id("true")>>)>>, Integer(7))
    >>

\* programs over integer literals, def, if, lambda and calls, for the
\* comparison with the evaluator
EvaluatorPrograms ==
    << \* (def f (lambda () x)) (def x 1) (f)
       Prog(<<Def("f", Lambda(<<>>, <<Id("x")>>)), Def("x", I(1)), Call("f", <<>>)>>, NoValue),
       \* (def g (lambda (a) (def h (lambda () a)) (def a 5) (h))) (g 1)
       Prog(<<Def("g", Lambda(<<Id("a")>>,
                  <<Def("h", Lambda(<<>>, <<Id("a")>>)), Def("a", I(5)), Call("h", <<>>)>>)),
              Call("g", <<I(1)>>)>>, NoValue),
       \* (def sum (lambda (n) (if (< n 1) 0 (+ n (sum (- n 1)))))) (sum 3)
       Prog(<<Def("sum", Lambda(<<Id("n")>>,
                  <<If3(Call("<", <<Id("n"), I(1)>>), I(0),
                        Call("+", <<Id("n"), Call("sum", <<Call("-", <<Id("n"), I(1)>>)>>)>>))>>)),
              Call("sum", <<I(3)>>)>>, Integer(6)),
       \* (def x 1) (def f (lambda () (def x 2) x)) (+ (f) x)
       Prog(<<Def("x", I(1)), Def("f", Lambda(<<>>, <<Def("x", I(2)), Id("x")>>)),
              Call("+", <<Call("f", <<>>), Id("x")>>)>>, Integer(3))
    >>

\* first, rest and last, of the empty list and of a list that is changed
\* after rest; get and set with a key that is not Hashable and with a wrong
\* number of arguments
AccessorPrograms ==
    << \* (first ())
       Prog(<<Call("first", <<EmptyList>>)>>, NoValue),
       \* (rest ())
       Prog(<<Call("rest", <<EmptyList>>)>>, NoValue),
       \* (last ())
       Prog(<<Call("last", <<EmptyList>>)>>, NoValue),
       \* (def l ()) (push! l 1) (push! l 2) (push! l 3) (def r (rest l))
       \* (first l) (last l) (pop! l) (push! l 9) (last r)
       Prog(<<Def("l", EmptyList), Call("push!", <<Id("l"), I(1)>>),
              Call("push!", <<Id("l"), I(2)>>), Call("push!", <<Id("l"), I(3)>>),
              Def("r", Call("rest", <<Id("l")>>)),
              Call("first", <<Id("l")>>), Call("last", <<Id("l")>>),
              Call("pop!", <<Id("l")>>), Call("push!", <<Id("l"), I(9)>>),
              Call("last", <<Id("r")>>)>>, NoValue),
       \* (def l ()) (push! l 1) (push! l 2) (push! l 3) (def r (rest l))
       \* (pop! r) (push! r 7) (last l)
       Prog(<<Def("l", EmptyList), Call("push!", <<Id("l"), I(1)>>),
              Call("push!", <<Id("l"), I(2)>>), Call("push!", <<Id("l"), I(3)>>),
              Def("r", Call("rest", <<Id("l")>>)),
              Call("pop!", <<Id("r")>>), Call("push!", <<Id("r"), I(7)>>),
              Call("last", <<Id("l")>>)>>, NoValue),
       \* (def d (dict)) (get d (list 1))
       Prog(<<Def("d", Call("dict", <<>>)), Call("get", <<Id("d"), Call("list", <<I(1)>>)>>)>>,
            NoValue),
       \* (def d (dict)) (set d (lambda () 1) 2)
       Prog(<<Def("d", Call("dict", <<>>)),
              Call("set", <<Id("d"), Lambda(<<>>, <<I(1)>>), I(2)>>)>>, NoValue),
       \* (def d (dict)) (get d)
       Prog(<<Def("d", Call("dict", <<>>)), Call("get", <<Id("d")>>)>>, NoValue),
       \* (def d (dict)) (set d 1)
       Prog(<<Def("d", Call("dict", <<>>)), Call("set", <<Id("d"), I(1)>>)>>, NoValue),
       \* (def d (dict)) (get d 1 2) (set d 1 2 3)
       Prog(<<Def("d", Call("dict", <<>>)), Call("get", <<Id("d"), I(1), I(2)>>),
              Call("set", <<Id("d"), I(1), I(2), I(3)>>)>>, NoValue)
    >>

Programs ==
    << \* (+ 1 2)
       Prog(<<Call("+", <<I(1), I(2)>>)>>, Integer(3)),
       \* (if (< 1 2) 10 20)
       Prog(<<If3(Call("<", <<I(1), I(2)>>), I(10), I(20))>>, Integer(10)),
       \* (def x 1) (def y 2) (+ x y)
       Prog(<<Def("x", I(1)), Def("y", I(2)), Call("+", <<Id("x"), Id("y")>>)>>, Integer(3)),
       \* (def addBuilder (lambda (n) (lambda (m) (+ n m))))
       \* (def add5 (addBuilder 5)) (def add2 (addBuilder 2)) (+ (add5 7) (add2 7))
       Prog(<<Def("addBuilder", Lambda(<<Id("n")>>, <<Lambda(<<Id("m")>>, <<Call("+", <<Id("n"), Id("m")>>)>>)>>)),
              Def("add5", Call("addBuilder", <<I(5)>>)),
              Def("add2", Call("addBuilder", <<I(2)>>)),
              Call("+", <<Call("add5", <<I(7)>>), Call("add2", <<I(7)>>)>>)>>, Integer(21)),
       \* (def countdown (lambda (n) (if (< n 1) 0 (countdown (- n 1))))) (countdown 2)
       Prog(<<Def("countdown", Lambda(<<Id("n")>>,
                <<If3(Call("<", <<Id("n"), I(1)>>), I(0),
                      Call("countdown", <<Call("-", <<Id("n"), I(1)>>)>>))>>)),
              Call("countdown", <<I(2)>>)>>, Integer(0)),
       \* (def wrapper (lambda () (def countdown (lambda (n) (if (< n 1) 0 (countdown (- n 1)))))
       \*                         (countdown 2))) (wrapper)
       Prog(<<Def("wrapper", Lambda(<<>>,
                <<Def("countdown", Lambda(<<Id("n")>>,
                    <<If3(Call("<", <<Id("n"), I(1)>>), I(0),
                          Call("countdown", <<Call("-", <<Id("n"), I(1)>>)>>))>>)),
                  Call("countdown", <<I(2)>>)>>)),
              Call("wrapper", <<>>)>>, Integer(0)),
       \* ((lambda (a b c) a b c) 1 2 3)
       Prog(<<S(Lambda(<<Id("a"), Id("b"), Id("c")>>, <<Id("a"), Id("b"), Id("c")>>),
                <<I(1), I(2), I(3)>>)>>, Integer(3)),
       \* ((lambda () 1) 1)
       Prog(<<S(Lambda(<<>>, <<I(1)>>), <<I(1)>>)>>, NoValue),
       \* ((lambda (a b) a b) 1)
       Prog(<<S(Lambda(<<Id("a"), Id("b")>>, <<Id("a"), Id("b")>>), <<I(1)>>)>>, NoValue),
       \* (len 1)
       Prog(<<Call("len", <<I(1)>>)>>, NoValue),
       \* (def x 5) (+ x (- 1 "hi")) x
       Prog(<<Def("x", I(5)),
              Call("+", <<Id("x"), Call("-", <<I(1), StringLiteral(<<104, 105>>)>>)>>),
              Id("x")>>, NoValue),
       \* (len "hello")
       Prog(<<Call("len", <<StringLiteral(<<104, 101, 108, 108, 111>>)>>)>>, Integer(5)),
       \* (1)
       Prog(<<S(I(1), <<>>)>>, NoValue),
       \* (def f (lambda () (f))) (f)
       Prog(<<Def("f", Lambda(<<>>, <<Call("f", <<>>)>>)), Call("f", <<>>)>>, NoValue),
       \* (def g (lambda (a b) (g a b))) (g 1 2)
       Prog(<<Def("g", Lambda(<<Id("a"), Id("b")>>, <<Call("g", <<Id("a"), Id("b")>>)>>)),
              Call("g", <<I(1), I(2)>>)>>, NoValue),
       \* (def m (lambda () (m) (def x 1) ... (def x 1))) (m), LocalDefs defs
       Prog(<<Def("m", Lambda(<<>>, <<Call("m", <<>>)>> \o [i \in 1..LocalDefs |-> Def("x", I(1))])),
              Call("m", <<>>)>>, NoValue),
       \* (def one (lambda () (def num 1) num)) (one)
       Prog(<<Def("one", Lambda(<<>>, <<Def("num", I(1)), Id("num")>>)), Call("one", <<>>)>>,
            Integer(1)),
       \* ((lambda ()))
       Prog(<<S(Lambda(<<>>, <<>>), <<>>)>>, NULL_OBJ),
       \* (def l (list 1 2)) (def f (lambda () (push! l 9) 7)) (+ 10 20 30 (f))
       Prog(<<Def("l", Call("list", <<I(1), I(2)>>)),
              Def("f", Lambda(<<>>, <<Call("push!", <<Id("l"), I(9)>>), I(7)>>)),
              Call("+", <<I(10), I(20), I(30), Call("f", <<>>)>>)>>, NoValue),
       \* (def l ()) (push! l 1) (push! l 2) (len l)
       Prog(<<Def("l", EmptyList), Call("push!", <<Id("l"), I(1)>>),
              Call("push!", <<Id("l"), I(2)>>), Call("len", <<Id("l")>>)>>, Integer(2)),
       \* (def mk (lambda (a) (lambda (b) (lambda (c) (+ a b c))))) (((mk 1) 2) 3)
       Prog(<<Def("mk", Lambda(<<Id("a")>>, <<Lambda(<<Id("b")>>,
                <<Lambda(<<Id("c")>>, <<Call("+", <<Id("a"), Id("b"), Id("c")>>)>>)>>)>>)),
              S(S(Call("mk", <<I(1)>>), <<I(2)>>), <<I(3)>>)>>, Integer(6)),
       \* (def down (lambda (n) (lambda () (if (< n 1) 0 ((down (- n 1))))))) ((down 1))
       Prog(<<Def("down", Lambda(<<Id("n")>>, <<Lambda(<<>>,
                <<If3(Call("<", <<Id("n"), I(1)>>), I(0),
                      S(Call("down", <<Call("-", <<Id("n"), I(1)>>)>>), <<>>))>>)>>)),
              S(Call("down", <<I(1)>>), <<>>)>>, Integer(0)),
       \* (def f (lambda (f) f)) (f 3)
       Prog(<<Def("f", Lambda(<<Id("f")>>, <<Id("f")>>)), Call("f", <<I(3)>>)>>, Integer(3)),
       \* (undefined)
       Prog(<<Call("undefined", <<>>)>>, NoValue)
    >> \o [i \in 1..Len(TruthOperands) |-> TruthProgram(TruthOperands[i])]
       \* (def x x) (if x 1 2) (not x)
       \o <<Prog(<<Def("x", Id("x")), If3(Id("x"), I(1), I(2)), Call("not", <<Id("x")>>)>>,
                 NoValue)>>
       \o MalformedPrograms
       \o CollectionPrograms
       \o IfPrograms
       \o EvaluatorPrograms
       \o AccessorPrograms

(***************************************************************************)
(* vm/vm.go, vm/frame.go                                                   *)
(***************************************************************************)
\* frames deeper than this do not get a snapshot of the caller's stack
SnapDepth == 3

VARIABLES
    program,        \* index in Programs of the program being run
    status,         \* "compile", "compile_error", "run", "done", "error", "panic"
    err,            \* the error Compile or Run returned, <<>> for nil
    constants,      \* vm.constants
    instructions,   \* Instructions of the main lambda
    stack,          \* vm.stack, the assigned slots; every other slot is nil
    sp,             \* vm.sp
    globals,        \* vm.globals, the assigned slots; every other slot is nil
    frames,         \* vm.frames[0 .. framesIndex - 1]
    closures,       \* address of a Closure |-> the Closure
    lists,          \* address of a List |-> its Values slice
    arrays,         \* backing arrays allocated by append
    dicts,          \* address of a Dictionary |-> its Values map
    nextAddr,       \* next address to allocate
    notes,          \* bookkeeping of the compilation
    obs,            \* what the last instruction did
    calls,          \* per frame up to SnapDepth: the stack below its callable
    stmtSp,         \* sp before the first instruction of the current statement
    session,        \* index in Sessions of the lines the REPL reads, 0 outside the REPL
    line,           \* number of lines the REPL has scanned
    symbolTable,    \* the root SymbolTable that StartCompiled keeps
    out,            \* what the REPL has written, one entry per Fprint call
    tables,         \* a chain of SymbolTables, the root first, each the outer of the next
    symCalls,       \* the calls made on the tables: the last one and what it returned
    made            \* the last instruction Make built and what ReadOperands read from it

vars == <<program, status, err, constants, instructions, stack, sp, globals,
          frames, closures, lists, arrays, dicts, nextAddr, notes, obs, calls, stmtSp,
          session, line, symbolTable, out, tables, symCalls, made>>

\* the state of StartCompiled
replVars == <<session, line, symbolTable, out>>

\* the state of the calls on the symbol tables and on the encoder alone
unitVars == <<tables, symCalls, made>>

NoCalls == [op |-> "", lvl |-> 0, name |-> "", sym |-> [Name |-> "", Scope |-> "", Index |-> 0],
            ok |-> FALSE, repeat |-> FALSE, before |-> 0, defines |-> <<>>, through |-> <<>>,
            n |-> 0]
NoInstruction == [op |-> -1, operands |-> <<>>, ins |-> <<>>, read |-> <<>>, offset |-> 0]

NoObs ==
    [op |-> -1, kind |-> "", val |-> Nil, arg |-> Nil, name |-> "",
     index |-> 0, depth |-> 0, tracked |-> FALSE, slot |-> 0, snap |-> <<>>,
     prevStmtSp |-> 0, ip |-> 0, pos |-> 0]

NoError == <<>>

\* Closure is the address of the frame's *object.Closure
NewFrame(closure, basePointer) == [Closure |-> closure, ip |-> -1, basePointer |-> basePointer]

Init ==
    /\ program \in 1..Len(Programs)
    /\ status = "compile"
    /\ err = NoError
    /\ constants = <<>>
    /\ instructions = <<>>
    /\ stack = <<>>
    /\ sp = 0
    /\ globals = <<>>
    /\ frames = <<>>
    /\ closures = <<>>
    /\ lists = <<>>
    /\ arrays = <<>>
    /\ dicts = <<>>
    /\ nextAddr = 1
    /\ notes = New.notes
    /\ obs = NoObs
    /\ calls = <<>>
    /\ stmtSp = 0
    /\ session = 0
    /\ line = 0
    /\ symbolTable = NewSymbolTable
    /\ out = <<>>
    /\ tables = <<>>
    /\ symCalls = NoCalls
    /\ made = NoInstruction

\* the machine a step works on
M == [stack |-> stack, sp |-> sp, globals |-> globals, frames |-> frames,
      closures |-> closures, lists |-> lists, arrays |-> arrays, dicts |-> dicts, nextAddr |-> nextAddr,
      status |-> status, err |-> err]

Commit(m) ==
    /\ stack' = m.stack
    /\ sp' = m.sp
    /\ globals' = m.globals
    /\ frames' = m.frames
    /\ closures' = m.closures
    /\ lists' = m.lists
    /\ arrays' = m.arrays
    /\ dicts' = m.dicts
    /\ nextAddr' = m.nextAddr
    /\ status' = m.status
    /\ err' = m.err

\* compiler.New(), Compile(program), then vm.New(Bytecode()) as the tests do:
\* a compile error ends the run before a VM exists
CompileProgram ==
    /\ status = "compile"
    /\ LET c == Compile(New, Programs[program].ast) IN
       /\ notes' = c.notes
       /\ IF c.err # NoError THEN
             /\ status' = "compile_error"
             /\ err' = c.err
             /\ UNCHANGED <<constants, instructions, frames, closures, nextAddr>>
          ELSE
             /\ status' = "run"
             /\ err' = NoError
             /\ constants' = Bytecode(c).Constants
             /\ instructions' = Bytecode(c).Instructions
             /\ frames' = <<NewFrame(nextAddr, 0)>>
             /\ closures' = (nextAddr :> Closure(MainLambda, <<>>))
             /\ nextAddr' = nextAddr + 1
    /\ UNCHANGED <<program, stack, sp, globals, lists, arrays, dicts, obs, calls, stmtSp>>
    /\ UNCHANGED <<replVars, unitVars>>

LambdaAt(index) ==
    IF index = MainLambda THEN CompiledLambda(instructions, 0, 0) ELSE constants[index + 1]

currentFrame(m) == m.frames[Len(m.frames)]

FrameInstructions(f) == LambdaAt(closures[f.Closure].Lambda).Instructions

setIp(m, ip) == [m EXCEPT !.frames[Len(m.frames)].ip = ip]

Fail(m, msg) == [m EXCEPT !.status = "error", !.err = msg]

\* a Go runtime panic: Run does not return
Crash(m, msg) == [m EXCEPT !.status = "panic", !.err = msg]

push(m, o) ==
    IF m.sp >= StackSize THEN Fail(m, <<"stack overflow">>)
    ELSE IF m.sp < 0 THEN Crash(m, <<"index out of range">>)
    ELSE [SetSlot(m, m.sp, o) EXCEPT !.sp = m.sp + 1]

\* a pop that also clears the slot it pops
popAndClear(m) ==
    IF m.sp - 1 < 0 \/ m.sp - 1 >= StackSize THEN Crash(m, <<"index out of range">>)
    ELSE [SetSlot(m, m.sp - 1, Nil) EXCEPT !.sp = m.sp - 1]

\* pop returns the slot at vm.sp - 1
pop(m) ==
    IF m.sp - 1 < 0 \/ m.sp - 1 >= StackSize THEN Crash(m, <<"index out of range">>)
    ELSE [m EXCEPT !.sp = m.sp - 1]

LastPoppedStackElem == Slot(M, sp)

\* a truthiness for which only False is falsy
isTruthyButFalse(o) == o # FALSE_OBJ

isTruthy(o) == o # FALSE_OBJ /\ o # NULL_OBJ

pushFrame(m, f) ==
    IF Len(m.frames) >= MaxFrames THEN Crash(m, <<"index out of range">>)
    ELSE [m EXCEPT !.frames = Append(m.frames, f)]

popFrame(m) == [m EXCEPT !.frames = SubSeq(m.frames, 1, Len(m.frames) - 1)]

\* the loop condition of Run, and the fetch: ip is the position of the
\* opcode that the next iteration executes
Fetching == status = "run" /\ currentFrame(M).ip < Len(FrameInstructions(currentFrame(M))) - 1
Ip == currentFrame(M).ip + 1
Ins == FrameInstructions(currentFrame(M))
Op == Ins[Ip + 1]
\* the machine after vm.currentFrame().ip++
Fetched == setIp(M, Ip)

Observe(o) == obs' = [o EXCEPT !.depth = Len(frames)]
Rest == UNCHANGED <<program, constants, instructions, notes>> /\ UNCHANGED <<replVars, unitVars>>
Plain(op) == Observe([NoObs EXCEPT !.op = op]) /\ UNCHANGED <<calls, stmtSp>> /\ Rest

OpConstantStep ==
    /\ Fetching /\ Op = OpConstant
    /\ LET constIndex == ReadUint16(Ins, Ip + 1) IN
       Commit(push(setIp(Fetched, Ip + 2), constants[constIndex + 1]))
    /\ Plain(OpConstant)

\* OpPop; in the main frame it ends a statement
OpPopStep ==
    /\ Fetching /\ Op = OpPop
    /\ Commit(pop(Fetched))
    /\ Observe([NoObs EXCEPT !.op = OpPop,
                             !.val = IF sp > 0 THEN Slot(M, sp - 1) ELSE Nil,
                             !.prevStmtSp = stmtSp])
    /\ stmtSp' = IF Len(frames) = 1 THEN sp - 1 ELSE stmtSp
    /\ UNCHANGED calls /\ Rest

OpTrueStep ==
    /\ Fetching /\ Op = OpTrue
    /\ Commit(push(Fetched, TRUE_OBJ))
    /\ Plain(OpTrue)

OpFalseStep ==
    /\ Fetching /\ Op = OpFalse
    /\ Commit(push(Fetched, FALSE_OBJ))
    /\ Plain(OpFalse)

OpNullStep ==
    /\ Fetching /\ Op = OpNull
    /\ Commit(push(Fetched, NULL_OBJ))
    /\ Plain(OpNull)

OpJumpStep ==
    /\ Fetching /\ Op = OpJump
    /\ LET pos == ReadUint16(Ins, Ip + 1) IN Commit(setIp(Fetched, pos - 1))
    /\ Plain(OpJump)

OpJumpWhenFalseStep ==
    /\ Fetching /\ Op = OpJumpWhenFalse
    /\ LET pos == ReadUint16(Ins, Ip + 1)
           m1 == pop(setIp(Fetched, Ip + 2))
           condition == Slot(M, sp - 1)
       IN /\ Commit(IF m1.status = "run" /\ ~isTruthy(condition)
                    THEN setIp(m1, pos - 1) ELSE m1)
          /\ Observe([NoObs EXCEPT !.op = OpJumpWhenFalse,
                                   !.val = IF sp > 0 THEN condition ELSE Nil,
                                   !.ip = Ip, !.pos = pos])
    /\ UNCHANGED <<calls, stmtSp>> /\ Rest

OpSetGlobalStep ==
    /\ Fetching /\ Op = OpSetGlobal
    /\ LET index == ReadUint16(Ins, Ip + 1)
           m1 == setIp(Fetched, Ip + 2)
       IN Commit(IF sp - 1 < 0 THEN Crash(m1, <<"index out of range">>)
                 ELSE [m1 EXCEPT !.globals = (index :> Slot(M, sp - 1)) @@ @])
    /\ Plain(OpSetGlobal)

OpGetGlobalStep ==
    /\ Fetching /\ Op = OpGetGlobal
    /\ LET index == ReadUint16(Ins, Ip + 1) IN
       Commit(push(setIp(Fetched, Ip + 2),
                   IF index \in DOMAIN globals THEN globals[index] ELSE Nil))
    /\ Plain(OpGetGlobal)

OpSetLocalStep ==
    /\ Fetching /\ Op = OpSetLocal
    /\ LET index == Ins[Ip + 2]
           m1 == setIp(Fetched, Ip + 1)
           basePointer == currentFrame(M).basePointer
       IN Commit(IF sp - 1 < 0 \/ basePointer + index >= StackSize
                 THEN Crash(m1, <<"index out of range">>)
                 ELSE SetSlot(m1, basePointer + index, Slot(M, sp - 1)))
    /\ Plain(OpSetLocal)

OpGetLocalStep ==
    /\ Fetching /\ Op = OpGetLocal
    /\ LET index == Ins[Ip + 2]
           m1 == setIp(Fetched, Ip + 1)
           basePointer == currentFrame(M).basePointer
       IN Commit(IF basePointer + index >= StackSize
                 THEN Crash(m1, <<"index out of range">>)
                 ELSE push(m1, Slot(M, basePointer + index)))
    /\ Plain(OpGetLocal)

OpGetBuiltinStep ==
    /\ Fetching /\ Op = OpGetBuiltin
    /\ LET index == Ins[Ip + 2] IN
       Commit(IF index >= Len(BuiltinNames)
              THEN Crash(setIp(Fetched, Ip + 1), <<"index out of range">>)
              ELSE push(setIp(Fetched, Ip + 1), FunctionObject(index)))
    /\ Plain(OpGetBuiltin)

\* the error of a Closure called with the wrong number of arguments
ArityErrorSwapped(expected, got) ==
    <<"wrong number of arguments: expected=", ToString(got), " got=", ToString(expected)>>

ArityError(expected, got) ==
    <<"wrong number of arguments: expected=", ToString(expected), " got=", ToString(got)>>

\* a builtin call that pushes whatever the builtin returned
PushAnyResult(m, argCount, result) ==
    push([m EXCEPT !.sp = m.sp - argCount - 1], result)

\* what OpCall does with the result of a builtin; m.sp is still above the
\* arguments
BuiltinResult(m, argCount, result) ==
    IF result.t = "ERROR" THEN Fail(m, result.Error)
    ELSE push([m EXCEPT !.sp = m.sp - argCount - 1], result)

\* a return that leaves the callable on the stack
ReturnSpAboveCallable(frame) == frame.basePointer

\* the stack pointer OpReturn sets before it pushes the return value
ReturnSp(frame) == frame.basePointer - 1

\* the top freeCount slots in reverse order
FreeVariablesReversed(m, freeCount) ==
    [i \in 1..freeCount |-> Slot(m, m.sp - i)]

\* the free variables OpClosure copies: the top freeCount slots, in order
FreeVariables(m, freeCount) ==
    [i \in 1..freeCount |-> Slot(m, m.sp - freeCount + i - 1)]

\* OpCall: the callable sits below the arguments
ArgCount == Ins[Ip + 2]
Callee == Slot(M, sp - ArgCount - 1)
Calling == Fetching /\ Op = OpCall /\ sp - ArgCount - 1 >= 0

OpCallClosureStep ==
    /\ Calling /\ Callee.t = "CLOSURE"
    /\ LET fn == Callee
           lambda == LambdaAt(closures[fn.addr].Lambda)
           m1 == setIp(Fetched, Ip + 1)
           frame == NewFrame(fn.addr, sp - ArgCount)
           m2 == pushFrame(m1, frame)
           m3 == IF ArgCount # lambda.ParameterCount
                 THEN Fail(m1, ArityError(lambda.ParameterCount, ArgCount))
                 ELSE IF m2.status # "run" THEN m2
                 ELSE [m2 EXCEPT !.sp = frame.basePointer + lambda.LocalsCount]
           slot == sp - ArgCount - 1
       IN /\ Commit(m3)
          /\ Observe([NoObs EXCEPT !.op = OpCall, !.kind = "closure", !.val = fn,
                                   !.index = ArgCount])
          /\ calls' = IF m3.status = "run" /\ Len(calls) = Len(frames) - 1 /\ Len(calls) < SnapDepth
                      THEN Append(calls, [slot |-> slot, snap |-> [i \in 0..(slot - 1) |-> Slot(M, i)]])
                      ELSE calls
    /\ UNCHANGED stmtSp /\ Rest

OpCallBuiltinStep ==
    /\ Calling /\ Callee.t = "FUNCTION" /\ Callee.Name \in ModelledBuiltins
    /\ LET fn == Callee
           m1 == setIp(Fetched, Ip + 1)
           r == ApplyBuiltin(m1, fn.Name, sp - ArgCount, ArgCount)
           result == r.result
           m2 == IF result = OutOfRange THEN Crash(r.m, OutOfRange.Error)
                 ELSE IF result.t \in {"PANIC", "nil"} THEN Crash(r.m, <<"nil pointer dereference">>)
                 ELSE BuiltinResult(r.m, ArgCount, result)
       IN /\ Commit(m2)
          /\ Observe([NoObs EXCEPT !.op = OpCall, !.kind = "builtin", !.val = result,
                                   !.name = fn.Name, !.index = ArgCount,
                                   !.arg = IF ArgCount > 0 THEN Slot(M, sp - ArgCount) ELSE Nil])
    /\ UNCHANGED <<calls, stmtSp>> /\ Rest

OpCallOtherStep ==
    /\ Calling /\ Callee.t \notin {"CLOSURE", "FUNCTION"}
    /\ Commit(Fail(setIp(Fetched, Ip + 1), <<"calling non-function">>))
    /\ Observe([NoObs EXCEPT !.op = OpCall, !.kind = "other", !.val = Callee])
    /\ UNCHANGED <<calls, stmtSp>> /\ Rest

OpReturnStep ==
    /\ Fetching /\ Op = OpReturn
    /\ LET m1 == pop(Fetched)
           returnValue == Slot(M, sp - 1)
           frame == currentFrame(M)
           m2 == popFrame(m1)
           tracked == Len(calls) = Len(frames) - 1 /\ Len(calls) > 0
       IN /\ Commit(IF m1.status # "run" THEN m1
                    ELSE push([m2 EXCEPT !.sp = ReturnSp(frame)], returnValue))
          /\ Observe([NoObs EXCEPT !.op = OpReturn,
                                   !.val = IF sp > 0 THEN returnValue ELSE Nil,
                                   !.tracked = tracked,
                                   !.slot = IF tracked THEN calls[Len(calls)].slot ELSE 0,
                                   !.snap = IF tracked THEN calls[Len(calls)].snap ELSE <<>>])
          /\ calls' = IF tracked THEN SubSeq(calls, 1, Len(calls) - 1) ELSE calls
    /\ UNCHANGED stmtSp /\ Rest

OpEmptyListStep ==
    /\ Fetching /\ Op = OpEmptyList
    /\ Commit(push([Fetched EXCEPT !.lists = (nextAddr :> Slice(NilArray, 0, 0, 0)) @@ @,
                                   !.nextAddr = nextAddr + 1],
                   List(nextAddr)))
    /\ Plain(OpEmptyList)

OpClosureStep ==
    /\ Fetching /\ Op = OpClosure
    /\ LET index == ReadUint16(Ins, Ip + 1)
           freeCount == Ins[Ip + 4]
           m1 == setIp(Fetched, Ip + 3)
           constant == constants[index + 1]
           freeVariables == FreeVariables(M, freeCount)
       IN /\ Commit(IF constant.t # "COMPILED_FUNCTION_OBJ"
                    THEN Fail(m1, <<"object not lambda: ", ToString(constant)>>)
                    ELSE IF sp - freeCount < 0 THEN Crash(m1, <<"index out of range">>)
                    ELSE push([m1 EXCEPT !.sp = sp - freeCount, !.nextAddr = nextAddr + 1,
                                         !.closures = (nextAddr :> Closure(index, freeVariables)) @@ @],
                              ClosureRef(nextAddr)))
          /\ Observe([NoObs EXCEPT !.op = OpClosure, !.index = index])
    /\ UNCHANGED <<calls, stmtSp>> /\ Rest

OpGetFreeStep ==
    /\ Fetching /\ Op = OpGetFree
    /\ LET index == Ins[Ip + 2]
           m1 == setIp(Fetched, Ip + 1)
           free == closures[currentFrame(M).Closure].Free
       IN /\ Commit(IF index >= Len(free) THEN Crash(m1, <<"index out of range">>)
                    ELSE push(m1, free[index + 1]))
          /\ Observe([NoObs EXCEPT !.op = OpGetFree, !.index = index])
    /\ UNCHANGED <<calls, stmtSp>> /\ Rest

OpCurrentClosureStep ==
    /\ Fetching /\ Op = OpCurrentClosure
    /\ Commit(push(Fetched, ClosureRef(currentFrame(M).Closure)))
    /\ Plain(OpCurrentClosure)

\* the loop condition fails: Run returns nil
RunReturns ==
    /\ status = "run"
    /\ ~Fetching
    /\ status' = "done"
    /\ UNCHANGED <<program, err, constants, instructions, stack, sp, globals, frames,
                   closures, lists, arrays, dicts, nextAddr, notes, obs, calls, stmtSp>>
    /\ UNCHANGED <<replVars, unitVars>>

Next ==
    \/ CompileProgram
    \/ OpConstantStep
    \/ OpPopStep
    \/ OpTrueStep
    \/ OpFalseStep
    \/ OpNullStep
    \/ OpJumpStep
    \/ OpJumpWhenFalseStep
    \/ OpSetGlobalStep
    \/ OpGetGlobalStep
    \/ OpSetLocalStep
    \/ OpGetLocalStep
    \/ OpGetBuiltinStep
    \/ OpCallClosureStep
    \/ OpCallBuiltinStep
    \/ OpCallOtherStep
    \/ OpReturnStep
    \/ OpEmptyListStep
    \/ OpClosureStep
    \/ OpGetFreeStep
    \/ OpCurrentClosureStep
    \/ RunReturns

Spec == Init /\ [][Next]_vars

(***************************************************************************)
(* repl: StartCompiled.  A session is the sequence of lines the scanner    *)
(* yields; a line is empty, a text the parser reports errors for, or the   *)
(* Program the parser returns.                                             *)
(***************************************************************************)
\* compiler.NewWithState
NewWithState(consts, st) == [New EXCEPT !.constants = consts, !.symbolTable = <<st>>]

Sessions ==
    << \* (def x 1) / (def f (lambda (a) (+ a x 10))) / (def y 20) / (f y)
       <<Program(<<Def("x", I(1))>>),
         Program(<<Def("f", Lambda(<<Id("a")>>, <<Call("+", <<Id("a"), Id("x"), I(10)>>)>>))>>),
         Program(<<Def("y", I(20))>>),
         Program(<<Call("f", <<Id("y")>>)>>)>>,
       \* (def x 1) / (def f (lambda () x)) / (def x 2) / (f) / x
       <<Program(<<Def("x", I(1))>>),
         Program(<<Def("f", Lambda(<<>>, <<Id("x")>>))>>),
         Program(<<Def("x", I(2))>>),
         Program(<<Call("f", <<>>)>>),
         Program(<<Id("x")>>)>>,
       \* (def x y) / x
       <<Program(<<Def("x", Id("y"))>>),
         Program(<<Id("x")>>)>>,
       \* (1) / / (+ 1 "a") / (def a 3) / (undefined) / a / a text with a parse error / a
       <<Program(<<S(I(1), <<>>)>>),
         [k |-> "empty"],
         Program(<<Call("+", <<I(1), StringLiteral(<<97>>)>>)>>),
         Program(<<Def("a", I(3))>>),
         Program(<<Call("undefined", <<>>)>>),
         Program(<<Id("a")>>),
         [k |-> "parse_error"],
         Program(<<Id("a")>>)>>,
       \* (def mk (lambda (a) (lambda (b) (+ a b)))) / ((mk 1) 2)
       \* / (def down (lambda (n) (if (< n 1) n (down (- n 1))))) / (down 2)
       \* / (if true () null) / (if false 1) / (def loc (lambda () (def z 1) z)) / (loc)
       <<Program(<<Def("mk", Lambda(<<Id("a")>>,
                                    <<Lambda(<<Id("b")>>, <<Call("+", <<Id("a"), Id("b")>>)>>)>>))>>),
         Program(<<S(Call("mk", <<I(1)>>), <<I(2)>>)>>),
         Program(<<Def("down", Lambda(<<Id("n")>>,
                                      <<If3(Call("<", <<Id("n"), I(1)>>), Id("n"),
                                            Call("down", <<Call("-", <<Id("n"), I(1)>>)>>))>>))>>),
         Program(<<Call("down", <<I(2)>>)>>),
         Program(<<If3(Id("true"), EmptyList, Id("null"))>>),
         Program(<<If2(Id("false"), I(1))>>),
         Program(<<Def("loc", Lambda(<<>>, <<Def("z", I(1)), Id("z")>>))>>),
         Program(<<Call("loc", <<>>)>>)>>
    >>

\* StartCompiled before its loop
ReplInit ==
    /\ session \in 1..Len(Sessions)
    /\ line = 0
    /\ symbolTable = DefineBuiltins(NewSymbolTable, 0)
    /\ out = <<>>
    /\ tables = <<>>
    /\ symCalls = NoCalls
    /\ made = NoInstruction
    /\ constants = <<>>
    /\ globals = <<>>
    /\ program = 0
    /\ status = "read"
    /\ err = NoError
    /\ instructions = <<>>
    /\ stack = <<>>
    /\ sp = 0
    /\ frames = <<>>
    /\ closures = <<>>
    /\ lists = <<>>
    /\ arrays = <<>>
    /\ dicts = <<>>
    /\ nextAddr = 1
    /\ notes = New.notes
    /\ obs = NoObs
    /\ calls = <<>>
    /\ stmtSp = 0

\* vm.New(bytecode) next to the objects of the earlier VMs: a new stack with
\* sp = 0 and the main frame.  A List that is a window on the stack of the
\* VM before keeps that array.
Boot(m) ==
    LET old == {a \in DOMAIN m.lists : m.lists[a].arr = StackArray}
        kept == [i \in 1..StackSize |-> Slot(m, i - 1)]
        m1 == IF old = {} THEN m
              ELSE [m EXCEPT !.arrays = (m.nextAddr :> kept) @@ @,
                             !.lists = [a \in DOMAIN m.lists |->
                                           IF a \in old THEN [m.lists[a] EXCEPT !.arr = m.nextAddr]
                                           ELSE m.lists[a]],
                             !.nextAddr = m.nextAddr + 1]
    IN [m1 EXCEPT !.stack = <<>>, !.sp = 0,
                  !.frames = <<NewFrame(m1.nextAddr, 0)>>,
                  !.closures = (m1.nextAddr :> Closure(MainLambda, <<>>)) @@ @,
                  !.nextAddr = m1.nextAddr + 1,
                  !.status = "run", !.err = NoError]

\* a VM that starts every line with empty globals
VmNewWithoutState(m, s) == [Boot(m) EXCEPT !.globals = <<>>]

\* vm.NewWithState(bytecode, s)
VmNewWithState(m, s) == [Boot(m) EXCEPT !.globals = s]

Written(kind, val) == [line |-> line, kind |-> kind, val |-> val]

\* scanner.Scan() returns false: StartCompiled returns
ReplEof ==
    /\ status = "read"
    /\ line = Len(Sessions[session])
    /\ status' = "exit"
    /\ UNCHANGED <<program, err, constants, instructions, stack, sp, globals, frames,
                   closures, lists, arrays, dicts, nextAddr, notes, obs, calls, stmtSp>>
    /\ UNCHANGED <<replVars, unitVars>>

\* one pass of the loop up to the call of Run: scan a line, skip it when it
\* is empty, return on parse errors, compile it with the kept constants and
\* symbol table, and on success keep the constants and make the VM
ReplLine ==
    /\ status = "read"
    /\ line < Len(Sessions[session])
    /\ line' = line + 1
    /\ LET text == Sessions[session][line + 1]
           c == Compile(NewWithState(constants, symbolTable), text)
       IN CASE text.k = "empty" ->
                 /\ Commit(M)
                 /\ UNCHANGED <<constants, instructions, notes, symbolTable, out>>
            [] text.k = "parse_error" ->
                 /\ out' = Append(out, [line |-> line + 1, kind |-> "parser error", val |-> <<>>])
                 /\ Commit([M EXCEPT !.status = "exit"])
                 /\ UNCHANGED <<constants, instructions, notes, symbolTable>>
            [] OTHER ->
                 /\ symbolTable' = c.symbolTable[1]
                 /\ notes' = c.notes
                 /\ IF c.err # NoError THEN
                       /\ out' = Append(out, [line |-> line + 1, kind |-> "compiler error",
                                              val |-> c.err])
                       /\ Commit(M)
                       /\ UNCHANGED <<constants, instructions>>
                    ELSE
                       /\ constants' = Bytecode(c).Constants
                       /\ instructions' = Bytecode(c).Instructions
                       /\ Commit(VmNewWithState(M, globals))
                       /\ UNCHANGED out
    /\ obs' = NoObs
    /\ calls' = <<>>
    /\ stmtSp' = 0
    /\ UNCHANGED <<program, session, unitVars>>

\* after Run: a VM error is written and the loop continues; otherwise the
\* Inspect of LastPoppedStackElem is written, which dereferences a nil result
ReplOutput ==
    /\ status \in {"done", "error"}
    /\ IF status = "error" THEN
          /\ out' = Append(out, Written("vm error", err))
          /\ status' = "read"
       ELSE IF LastPoppedStackElem = Nil THEN
          /\ status' = "panic"
          /\ UNCHANGED out
       ELSE
          /\ out' = Append(out, Written("result", LastPoppedStackElem))
          /\ status' = "read"
    /\ UNCHANGED <<program, err, constants, instructions, stack, sp, globals, frames,
                   closures, lists, arrays, dicts, nextAddr, notes, obs, calls, stmtSp,
                   session, line, symbolTable, unitVars>>

ReplNext ==
    \/ ReplEof
    \/ ReplLine
    \/ ReplOutput
    \/ OpConstantStep
    \/ OpPopStep
    \/ OpTrueStep
    \/ OpFalseStep
    \/ OpNullStep
    \/ OpJumpStep
    \/ OpJumpWhenFalseStep
    \/ OpSetGlobalStep
    \/ OpGetGlobalStep
    \/ OpSetLocalStep
    \/ OpGetLocalStep
    \/ OpGetBuiltinStep
    \/ OpCallClosureStep
    \/ OpCallBuiltinStep
    \/ OpCallOtherStep
    \/ OpReturnStep
    \/ OpEmptyListStep
    \/ OpClosureStep
    \/ OpGetFreeStep
    \/ OpCurrentClosureStep
    \/ RunReturns

ReplSpec == ReplInit /\ [][ReplNext]_vars

(***************************************************************************)
(* compiler/symbol_table.go on its own: calls of Define, DefineBuiltin,    *)
(* DefineFunctionName and Resolve on a chain of tables, in any order.      *)
(***************************************************************************)
\* tables in the chain, calls made on them, and the names they are made with
MaxDepth == 4
MaxSymCalls == 7
SymNames == {"a", "b"}

vmVars == <<program, status, err, constants, instructions, stack, sp, globals, frames,
            closures, lists, arrays, dicts, nextAddr, notes, obs, calls, stmtSp>>

\* no program, no VM, no REPL
Idle ==
    /\ program = 0 /\ status = "idle" /\ err = NoError
    /\ constants = <<>> /\ instructions = <<>>
    /\ stack = <<>> /\ sp = 0 /\ globals = <<>> /\ frames = <<>>
    /\ closures = <<>> /\ lists = <<>> /\ arrays = <<>> /\ dicts = <<>>
    /\ nextAddr = 1 /\ notes = New.notes /\ obs = NoObs /\ calls = <<>> /\ stmtSp = 0
    /\ session = 0 /\ line = 0 /\ symbolTable = NewSymbolTable /\ out = <<>>

\* NewSymbolTable()
SymInit ==
    /\ Idle
    /\ tables = <<NewSymbolTable>>
    /\ symCalls = [NoCalls EXCEPT !.defines = <<0>>, !.through = <<{}>>]
    /\ made = NoInstruction

\* the record of a call: what it was, what it returned, whether the call
\* before was the same call, the number of Define calls made on each table
\* (before is that number for table lvl before this call), and for each
\* table the names resolved through an enclosing scope that is neither
\* global nor builtin
Called(op, lvl, name, sym, ok, defines, through) ==
    [op |-> op, lvl |-> lvl, name |-> name, sym |-> sym, ok |-> ok,
     repeat |-> (symCalls.op = op /\ symCalls.lvl = lvl /\ symCalls.name = name),
     before |-> IF lvl \in DOMAIN symCalls.defines THEN symCalls.defines[lvl] ELSE 0,
     defines |-> defines, through |-> through,
     n |-> symCalls.n + 1]

SymCalling == status = "idle" /\ Len(tables) > 0 /\ symCalls.n < MaxSymCalls

Untouched == UNCHANGED <<vmVars, replVars, made>>

\* NewEnclosedSymbolTable(the innermost table)
SymEnclose ==
    /\ SymCalling
    /\ Len(tables) < MaxDepth
    /\ tables' = Append(tables, NewSymbolTable)
    /\ symCalls' = Called("NewEnclosedSymbolTable", Len(tables) + 1, "", NoSymbol, TRUE,
                          Append(symCalls.defines, 0), Append(symCalls.through, {}))
    /\ Untouched

SymDefine ==
    /\ SymCalling
    /\ \E lvl \in 1..Len(tables), s \in SymNames :
          LET d == Define(tables, lvl, s) IN
          /\ tables' = d.tables
          /\ symCalls' = Called("Define", lvl, s, d.sym, TRUE,
                                [symCalls.defines EXCEPT ![lvl] = @ + 1], symCalls.through)
    /\ Untouched

\* DefineBuiltin on the root table, as New and StartCompiled call it
SymDefineBuiltin ==
    /\ SymCalling
    /\ \E index \in 0..1, s \in SymNames :
          /\ tables' = [tables EXCEPT ![1] = DefineBuiltin(tables[1], index, s)]
          /\ symCalls' = Called("DefineBuiltin", 1, s, Symbol(s, BuiltinScope, index), TRUE,
                                symCalls.defines, symCalls.through)
    /\ Untouched

\* DefineFunctionName on an enclosed table, as compileLambdaExpression calls it
SymDefineFunctionName ==
    /\ SymCalling
    /\ \E lvl \in 2..Len(tables), s \in SymNames :
          /\ tables' = [tables EXCEPT ![lvl] = DefineFunctionName(tables[lvl], s)]
          /\ symCalls' = Called("DefineFunctionName", lvl, s, Symbol(s, FunctionScope, 0), TRUE,
                                symCalls.defines, symCalls.through)
    /\ Untouched

\* the innermost table at or below lvl whose store holds s, 0 if there is none
Holder(lvl, s) ==
    LET holders == {h \in 1..lvl : s \in DOMAIN tables[h].store} IN
    IF holders = {} THEN 0 ELSE CHOOSE h \in holders : \A g \in holders : g <= h

SymResolve ==
    /\ SymCalling
    /\ \E lvl \in 1..Len(tables), s \in SymNames :
          LET r == Resolve(tables, lvl, s)
              h == Holder(lvl, s)
              enclosed == h > 0 /\ tables[h].store[s].Scope \notin {GlobalScope, BuiltinScope}
          IN
          /\ tables' = r.tables
          /\ symCalls' = Called("Resolve", lvl, s, r.sym, r.ok, symCalls.defines,
                                [l \in 1..Len(tables) |->
                                    IF enclosed /\ l > h /\ l <= lvl
                                    THEN symCalls.through[l] \cup {s}
                                    ELSE symCalls.through[l]])
    /\ Untouched

SymNext ==
    \/ SymEnclose
    \/ SymDefine
    \/ SymDefineBuiltin
    \/ SymDefineFunctionName
    \/ SymResolve

SymSpec == SymInit /\ [][SymNext]_vars

(***************************************************************************)
(* code: Make and ReadOperands on their own                                *)
(***************************************************************************)
\* operands are taken within Near of 0, of 2^8 and of 2^16
Near == 2

OperandValues ==
    (0..Near) \cup ((256 - Near)..(256 + Near)) \cup ((65536 - Near)..(65536 + Near)) \cup {4660}

EncInit ==
    /\ Idle
    /\ tables = <<>>
    /\ symCalls = NoCalls
    /\ made = NoInstruction

\* Make(op, operands...) and ReadOperands(definitions[op], instruction[1:])
MakeAndRead ==
    /\ status = "idle" /\ tables = <<>>
    /\ \E op \in DOMAIN definitions :
       \E operands \in [1..Len(definitions[op]) -> OperandValues] :
          LET ins == Make(op, operands)
              r == ReadOperands(definitions[op], Tail(ins))
          IN made' = [op |-> op, operands |-> operands, ins |-> ins,
                      read |-> r.operands, offset |-> r.offset]
    /\ UNCHANGED <<vmVars, replVars, tables, symCalls>>

EncNext == MakeAndRead

EncSpec == EncInit /\ [][EncNext]_vars

(***************************************************************************)
(* Properties                                                              *)
(***************************************************************************)
TopFrame == frames[Len(frames)]
TopClosure == closures[TopFrame.Closure]
Top == Slot(M, sp - 1)
Falsy(o) == o = FALSE_OBJ \/ o = NULL_OBJ

\* C1: in every state reached while Run executes compiled bytecode the stack
\* pointer satisfies 0 <= sp <= StackSize, also right after OpCall on a
\* Closure set sp = basePointer + LocalsCount and after OpReturn set
\* sp = basePointer - 1.
SpInRange == 0 <= sp /\ sp <= StackSize

\* C2: an OpCall on a Closure executed while the frame stack already holds
\* MaxFrames frames makes Run return a VM error; no frame is written at index
\* MaxFrames and framesIndex does not exceed MaxFrames.
FrameOverflowIsVMError ==
    (obs.op = OpCall /\ obs.kind = "closure" /\ obs.depth = MaxFrames)
        => (status = "error" /\ Len(frames) <= MaxFrames)

\* C3: stack neutrality per statement: when the trailing OpPop of a top-level
\* expression has run, sp equals sp before the first instruction of that
\* expression.
StackNeutralPerStatement ==
    (obs.op = OpPop /\ obs.depth = 1 /\ status \in {"run", "done"}) => sp = obs.prevStmtSp

\* the statement (wrapper) of program 6, which calls closures two deep, is done
StackNeutralWitness ==
    program = 6 /\ status = "done" /\ obs.op = OpPop /\ obs.depth = 1 /\ obs.val = Integer(0)

\* C4: when a Closure call returns through OpReturn the callee frame is
\* popped, sp is the index of the callable's slot plus one, that slot holds
\* the return value, and every slot below it holds the value it held right
\* before the OpCall.
ReturnRestoresStack ==
    (obs.op = OpReturn /\ obs.tracked /\ status = "run") =>
        /\ Len(frames) = obs.depth - 1
        /\ sp = obs.slot + 1
        /\ Slot(M, obs.slot) = obs.val
        /\ \A i \in 0..(obs.slot - 1) : Slot(M, i) = obs.snap[i]

\* C5: OpCall on a Closure with argN different from ParameterCount makes Run
\* return "wrong number of arguments: expected=<ParameterCount> got=<argN>";
\* no frame is pushed and the operand stack is as it was, so no instruction
\* of the callee executes.
WrongArgCountIsError ==
    [][(Calling /\ Callee.t = "CLOSURE"
          /\ ArgCount # LambdaAt(closures[Callee.addr].Lambda).ParameterCount)
       => /\ status' = "error"
          /\ err' = <<"wrong number of arguments: expected=",
                      ToString(LambdaAt(closures[Callee.addr].Lambda).ParameterCount),
                      " got=", ToString(ArgCount)>>
          /\ Len(frames') = Len(frames)
          /\ sp' = sp
          /\ stack' = stack]_vars

\* ((lambda (a b) a b) 1) has stopped with the error
WrongArgCountWitness ==
    /\ program = 9 /\ status = "error" /\ obs.op = OpCall /\ obs.kind = "closure"
    /\ err = <<"wrong number of arguments: expected=", "2", " got=", "1">>
    /\ Len(frames) = 1

LastPoppedIsResult ==
    (status = "done" /\ Len(Programs[program].ast.Expressions) > 0) =>
        /\ sp = 0
        /\ obs.op = OpPop /\ obs.depth = 1
        /\ LastPoppedStackElem = obs.val
        /\ LastPoppedStackElem = Slot(M, 0)
        /\ Programs[program].expected # NoValue
              => LastPoppedStackElem = Programs[program].expected

\* (+ (add5 7) (add2 7)) was the last expression
LastPoppedWitness == program = 4 /\ status = "done" /\ LastPoppedStackElem = Integer(21)

\* what a free symbol of an inner scope denotes in the running frame
Denotes(sym) ==
    CASE sym.Scope = LocalScope -> Slot(M, TopFrame.basePointer + sym.Index)
      [] sym.Scope = FreeScope -> TopClosure.Free[sym.Index + 1]
      [] sym.Scope = FunctionScope -> ClosureRef(TopFrame.Closure)
      [] OTHER -> Nil

CapturedAtCreation ==
    (obs.op = OpClosure /\ status = "run") =>
        /\ Top.t = "CLOSURE"
        /\ closures[Top.addr].Lambda = obs.index
        /\ Len(closures[Top.addr].Free) = Len(notes.free[obs.index])
        /\ \A i \in 1..Len(notes.free[obs.index]) :
              closures[Top.addr].Free[i] = Denotes(notes.free[obs.index][i])

GetFreePushesCaptured ==
    (obs.op = OpGetFree /\ status = "run") => Top = TopClosure.Free[obs.index + 1]

\* add5 and add2 of program 4: one lambda, each with the argument of its
\* own call of addBuilder
BuilderClosuresDiffer ==
    (program = 4 /\ {1, 2} \subseteq DOMAIN globals) =>
        /\ closures[globals[1].addr].Free = <<Integer(5)>>
        /\ closures[globals[2].addr].Free = <<Integer(2)>>
        /\ closures[globals[1].addr].Lambda = closures[globals[2].addr].Lambda

ClosuresNeverChange ==
    \A a \in DOMAIN closures : a \in DOMAIN closures' /\ closures'[a] = closures[a]

\* C8: when OpClosure builds a Closure, Free[i] is what the i-th entry of the
\* inner scope's FreeSymbols denotes in the running frame (a local slot, a
\* free slot of the running closure, or the running closure itself); Free
\* never changes afterwards and OpGetFree i pushes Free[i] of the running
\* closure; two closures made by two calls of one builder each hold the
\* argument of their own call.
ClosureCaptures ==
    [][/\ (CapturedAtCreation /\ GetFreePushesCaptured /\ BuilderClosuresDiffer)'
       /\ ClosuresNeverChange]_vars

\* the innermost lambda of program 21 has just been closed over a and b
ClosureCapturesWitness ==
    /\ program = 21 /\ status = "run" /\ obs.op = OpClosure
    /\ closures[Top.addr].Free = <<Integer(1), Integer(2)>>

\* r refers to the Name of the innermost open lambda, and no parameter or
\* local def of that lambda has the name
Direct(r) ==
    /\ Len(r.names) > 0
    /\ r.names[Len(r.names)] = r.name
    /\ r.name \notin r.defined[Len(r.names)]

\* r sits in a lambda nested in the body of the lambda named r.name, and no
\* parameter or local def on the way has the name
Nested(r) ==
    \E k \in 1..(Len(r.names) - 1) :
        /\ r.names[k] = r.name
        /\ \A j \in k..Len(r.names) : r.name \notin r.defined[j]
        /\ \A j \in (k + 1)..Len(r.names) : r.names[j] # r.name

\* the programs whose lambda only calls itself, and the frame of its first call
SelfCalling == {5, 6, 14, 15, 16}
FirstCall == IF program = 6 THEN 3 ELSE 2

\* C9 as stated: every unshadowed reference to name inside the body of the
\* lambda of (def name (lambda ...)) compiles to OpCurrentClosure.
SelfReferenceIsCurrentClosure ==
    \A i \in 1..Len(notes.refs) :
        (Direct(notes.refs[i]) \/ Nested(notes.refs[i]))
            => notes.refs[i].op = OpCurrentClosure

\* C9, amended: an unshadowed reference to name that stands directly in the
\* body of the lambda of (def name (lambda ...)) compiles to OpCurrentClosure;
\* inside a lambda nested in that body it compiles to OpGetFree.  Executing
\* OpCurrentClosure pushes the closure of the running frame, so every
\* recursive call runs the same closure, at top level and inside a lambda.
SelfReference ==
    /\ \A i \in 1..Len(notes.refs) :
          /\ Direct(notes.refs[i]) => notes.refs[i].op = OpCurrentClosure
          /\ Nested(notes.refs[i]) => notes.refs[i].op = OpGetFree
    /\ (obs.op = OpCurrentClosure /\ status = "run") => Top = ClosureRef(TopFrame.Closure)
    /\ (program \in SelfCalling /\ status = "run") =>
          \A i \in FirstCall..Len(frames) : frames[i].Closure = frames[FirstCall].Closure
    /\ (program \in {5, 6, 22} /\ status = "done") => LastPoppedStackElem = Integer(0)

\* countdown, defined inside wrapper, runs in its third recursive frame
SelfReferenceWitness ==
    /\ program = 6 /\ status = "run" /\ Len(frames) = 5
    /\ obs.op = OpCall /\ obs.kind = "closure"
    /\ frames[5].Closure = frames[3].Closure

JumpTaken == TopFrame.ip = obs.pos - 1
JumpNotTaken == TopFrame.ip = obs.ip + 2

\* C10: OpJumpWhenFalse jumps iff the popped value is False or Null, and
\* (not x) returns true iff x is False or Null, whatever value x is.
TruthinessAgrees ==
    /\ (obs.op = OpJumpWhenFalse /\ status \in {"run", "done"}) =>
          /\ JumpTaken <=> Falsy(obs.val)
          /\ JumpNotTaken <=> ~Falsy(obs.val)
    /\ (obs.op = OpCall /\ obs.kind = "builtin" /\ obs.name = "not" /\ obs.index = 1) =>
          /\ (obs.val = TRUE_OBJ) <=> Falsy(obs.arg)
          /\ status = "run" => (Top = obs.val /\ obs.val \in {TRUE_OBJ, FALSE_OBJ})

\* (not 0) has returned false
TruthinessWitness ==
    /\ obs.op = OpCall /\ obs.name = "not" /\ obs.arg = Integer(0)
    /\ obs.val = FALSE_OBJ /\ status = "run"

(***************************************************************************)
(* The REPL                                                                *)
(***************************************************************************)
\* no line of the session so far gave a compiler error or a VM error, and
\* nothing crashed
ErrorFree ==
    /\ session # 0
    /\ status \notin {"error", "panic"}
    /\ \A i \in 1..Len(out) : out[i].kind = "result"

GlobalNames == {name \in DOMAIN symbolTable.store : symbolTable.store[name].Scope = GlobalScope}

\* the pool only grows: every index keeps its constant
PoolGrows ==
    /\ Len(constants') >= Len(constants)
    /\ \A i \in 1..Len(constants) : constants'[i] = constants[i]

\* a slot of globals changes only when OpSetGlobal stores the top of the
\* stack in it, and OpGetGlobal pushes what the slot holds
GlobalsHoldLastStored ==
    /\ \A i \in DOMAIN globals :
          /\ i \in DOMAIN globals'
          /\ \/ globals'[i] = globals[i]
             \/ /\ Fetching /\ Op = OpSetGlobal
                /\ i = ReadUint16(Ins, Ip + 1)
                /\ globals'[i] = Slot(M, sp - 1)
    /\ (Fetching /\ Op = OpGetGlobal /\ status' = "run") =>
          LET index == ReadUint16(Ins, Ip + 1) IN
          /\ index \in DOMAIN globals => stack'[sp] = globals[index]
          /\ index \notin DOMAIN globals => stack'[sp] = Nil

\* C11 as stated: across REPL lines that each compile and run without error,
\* a global resolves on every later line to the same globals index and
\* reads the value last stored in it, and every constant index keeps
\* referring to the same constant.
ReplStatePersists ==
    [][ErrorFree' =>
          /\ \A name \in GlobalNames :
                /\ name \in DOMAIN symbolTable'.store
                /\ symbolTable'.store[name] = symbolTable.store[name]
          /\ GlobalsHoldLastStored
          /\ PoolGrows]_vars

\* C11, amended: across REPL lines that each compile and run without error,
\* a global resolves to the same globals index on every later line until a
\* line defines the name again, which gives the name a fresh index; a slot
\* of globals holds the value OpSetGlobal last stored in it and OpGetGlobal
\* reads it; and every constant index keeps referring to the same constant.
ReplStatePersistsUntilRedefined ==
    [][ErrorFree' =>
          /\ \A name \in GlobalNames :
                /\ name \in DOMAIN symbolTable'.store
                /\ \/ symbolTable'.store[name] = symbolTable.store[name]
                   \/ /\ symbolTable'.store[name].Scope = GlobalScope
                      /\ symbolTable'.store[name].Index >= symbolTable.count
                      /\ symbolTable'.store[name].Index < symbolTable'.count
          /\ GlobalsHoldLastStored
          /\ PoolGrows]_vars

\* on the fourth line of an error-free session the closure defined on the
\* second line reads the global defined on the first
ReplStatePersistsWitness ==
    /\ ErrorFree
    /\ line = 4
    /\ Len(frames) = 2
    /\ obs.op = OpGetGlobal
    /\ Top = Integer(1)
    /\ Len(constants) = 4

\* number of non-empty lines among the first n lines of the session
NonEmpty(n) == Cardinality({i \in 1..n : Sessions[session][i].k # "empty"})

NoParseErrors == \A i \in 1..Len(Sessions[session]) : Sessions[session][i].k # "parse_error"

\* C12: in the compiled REPL, in a session without parse errors, every
\* non-empty line produces exactly one output (the result, a compiler error
\* or a vm error) and the loop then reads the next line: the session ends
\* only at the end of the input and never crashes.
ReplOneOutputPerLine ==
    (session # 0 /\ NoParseErrors) =>
        /\ status # "panic"
        /\ status = "read" =>
              /\ Len(out) = NonEmpty(line)
              /\ \A i \in 1..Len(out) : out[i].kind \in {"result", "compiler error", "vm error"}
        /\ status = "exit" => line = Len(Sessions[session])

(***************************************************************************)
(* Compile errors                                                          *)
(***************************************************************************)
\* The first malformed form of an expression in the order of compilation,
\* "" when there is none, with the names in scope after the expression:
\* an identifier is in scope when it is a builtin, when a def before it in
\* the same or an enclosing scope has it as target, or when it is a
\* parameter of an enclosing lambda.
RECURSIVE FirstMalformed(_, _)
RECURSIVE FirstMalformedIn(_, _, _)
FirstMalformedIn(exprs, i, bound) ==
    IF i > Len(exprs) THEN [bad |-> "", bound |-> bound]
    ELSE LET r == FirstMalformed(exprs[i], bound) IN
         IF r.bad # "" THEN r ELSE FirstMalformedIn(exprs, i + 1, r.bound)

FirstMalformed(expr, bound) ==
    LET ok == [bad |-> "", bound |-> bound]
        Bad(kind) == [bad |-> kind, bound |-> bound]
    IN
    CASE expr.k = "program" -> FirstMalformedIn(expr.Expressions, 1, bound)
      [] expr.k = "id" ->
            IF expr.name \in {"true", "false", "null"} \cup bound THEN ok
            ELSE Bad("undefined")
      [] expr.k = "sexp" /\ expr.Fn.k = "id" /\ expr.Fn.name = "if" ->
            IF Len(expr.Args) < 2 \/ Len(expr.Args) > 3 THEN Bad("if")
            ELSE FirstMalformedIn(expr.Args, 1, bound)
      [] expr.k = "sexp" /\ expr.Fn.k = "id" /\ expr.Fn.name = "def" ->
            IF Len(expr.Args) # 2 THEN Bad("def")
            ELSE IF expr.Args[1].k # "id" THEN Bad("target")
            ELSE FirstMalformed(expr.Args[2], bound \cup {expr.Args[1].name})
      [] expr.k = "sexp" /\ expr.Fn.k = "id" /\ expr.Fn.name = "lambda" ->
            IF Len(expr.Args) < 1 THEN Bad("lambda")
            ELSE IF expr.Args[1].k # "sexp" THEN Bad("list")
            ELSE LET params == IF expr.Args[1].Fn.k = "nil" THEN <<>>
                               ELSE <<expr.Args[1].Fn>> \o expr.Args[1].Args
                 IN IF \E i \in 1..Len(params) : params[i].k # "id" THEN Bad("parameter")
                    ELSE LET inner == bound \cup {params[i].name : i \in 1..Len(params)}
                             r == FirstMalformedIn(SubSeq(expr.Args, 2, Len(expr.Args)), 1, inner)
                         IN [bad |-> r.bad, bound |-> bound]
      [] expr.k = "sexp" /\ expr.Fn.k # "nil" ->
            FirstMalformedIn(<<expr.Fn>> \o expr.Args, 1, bound)
      [] OTHER -> ok

CompileErrorOf(kind) ==
    CASE kind = "undefined" -> "undefined variable "
      [] kind = "if" -> "incorrect number of values in if expression"
      [] kind = "def" -> "incorrect number of values in def expression"
      [] kind = "target" -> "first argument to def must be identifier"
      [] kind = "lambda" -> "not enough arguments for lambda definition"
      [] kind = "list" -> "provided args must be a list"
      [] kind = "parameter" -> "function parameters must be identifiers"

BuiltinNameSet == {BuiltinNames[i] : i \in 1..Len(BuiltinNames)}

\* C13: Compile returns an error exactly when the program holds a malformed
\* form: an identifier that resolves in no enclosing scope, an if with fewer
\* than 2 or more than 3 arguments, a def without exactly 2 arguments or
\* with a target that is not an identifier, a lambda whose parameter form is
\* not a list or holds a parameter that is not an identifier (or a lambda
\* without arguments); the error names the first such form.
MalformedIsCompileError ==
    (program # 0 /\ status # "compile") =>
        LET bad == FirstMalformed(Programs[program].ast, BuiltinNameSet).bad IN
        /\ bad # "" => (status = "compile_error" /\ err[1] = CompileErrorOf(bad))
        /\ bad = "" => status # "compile_error"

\* Compile has returned the error for a def two lambdas deep whose target
\* is not an identifier
MalformedIsCompileErrorWitness ==
    /\ status = "compile_error"
    /\ program = 49
    /\ err = <<"first argument to def must be identifier">>

(***************************************************************************)
(* Symbol tables                                                           *)
(***************************************************************************)
FreeNames(l) == {tables[l].FreeSymbols[i].Name : i \in 1..Len(tables[l].FreeSymbols)}

\* C14: for any chain of symbol tables and any sequence of calls, the
\* FreeSymbols of a table hold each name that was resolved through an
\* enclosing scope that is neither global nor builtin exactly once, however
\* often the name is resolved, and hold no other name; no name in it
\* resolves to a Global or Builtin symbol, and a Global or Builtin symbol is
\* returned from any depth as the root table holds it.
FreeSymbolsOnce ==
    /\ \A l \in 1..Len(tables) :
          LET fs == tables[l].FreeSymbols IN
          /\ \A i, j \in 1..Len(fs) : fs[i].Name = fs[j].Name => i = j
          /\ FreeNames(l) = symCalls.through[l]
          /\ \A name \in FreeNames(l) :
                Resolve(tables, l, name).sym.Scope \notin {GlobalScope, BuiltinScope}
    /\ (symCalls.op = "Resolve" /\ symCalls.ok
          /\ symCalls.sym.Scope \in {GlobalScope, BuiltinScope}) =>
             /\ symCalls.sym = tables[1].store[symCalls.name]
             /\ symCalls.name \notin FreeNames(symCalls.lvl)

\* the innermost of four tables has resolved, twice in a row, a name that
\* the second table defines: it is free in the third and in the fourth
FreeSymbolsOnceWitness ==
    /\ Len(tables) = 4
    /\ symCalls.op = "Resolve" /\ symCalls.repeat /\ symCalls.lvl = 4
    /\ symCalls.sym = Symbol("a", FreeScope, 0)
    /\ tables[3].FreeSymbols = <<Symbol("a", LocalScope, 0)>>
    /\ tables[4].FreeSymbols = <<Symbol("a", FreeScope, 0)>>

\* C15: Define on a table without an enclosing table returns a Global
\* symbol, Define on an enclosed table a Local symbol, and in both the index
\* is the number of Define calls made on that table before: DefineBuiltin
\* consumes no index and an enclosed table numbers from 0 whatever the outer
\* table holds.
DefineIndexIsDefineCount ==
    /\ symCalls.op = "Define" =>
          /\ symCalls.sym.Name = symCalls.name
          /\ symCalls.sym.Scope = IF symCalls.lvl = 1 THEN GlobalScope ELSE LocalScope
          /\ symCalls.sym.Index = symCalls.before
    /\ symCalls.op = "DefineBuiltin" =>
          tables[1].count = symCalls.defines[1]

\* the first Define on an enclosed table, whose root table has two Defines
\* and a builtin
DefineIndexIsDefineCountWitness ==
    /\ symCalls.op = "Define" /\ symCalls.lvl = 2
    /\ symCalls.sym = Symbol("a", LocalScope, 0)
    /\ tables[1].count = 2
    /\ \E name \in DOMAIN tables[1].store : tables[1].store[name].Scope = BuiltinScope

(***************************************************************************)
(* Instructions                                                            *)
(***************************************************************************)
Fits(width, o) == o >= 0 /\ o < (IF width = 2 THEN 65536 ELSE 256)

RECURSIVE SumOf(_, _)
SumOf(widths, i) == IF i > Len(widths) THEN 0 ELSE widths[i] + SumOf(widths, i + 1)

\* C16: for every defined opcode and every operand tuple whose values fit
\* the widths of the opcode, ReadOperands on the instruction Make built,
\* without its opcode byte, returns these operands and the sum of the
\* widths, and the instruction is one byte longer than that sum.
EncoderRoundTrip ==
    (made.op # -1 /\ \A i \in 1..Len(made.operands) :
                        Fits(definitions[made.op][i], made.operands[i])) =>
        /\ made.read = made.operands
        /\ made.offset = SumOf(definitions[made.op], 1)
        /\ Len(made.ins) = 1 + made.offset
        /\ made.ins[1] = made.op

\* OpClosure with a two-byte operand whose bytes differ and a one-byte operand
EncoderRoundTripWitness ==
    /\ made.op = OpClosure
    /\ made.operands = <<4660, 255>>
    /\ made.ins = <<OpClosure, 18, 52, 255>>
    /\ made.read = <<4660, 255>>

(***************************************************************************)
(* Lists, dictionaries and equality.  A call of a builtin is one step: M   *)
(* is the machine before OpCall, M' the machine after it has pushed the    *)
(* result in the slot of the callee.                                       *)
(***************************************************************************)
CallingBuiltin(name) == Calling /\ Callee.t = "FUNCTION" /\ Callee.Name = name

\* argument i of the call, the first being argument 0
Arg(i) == Slot(M, sp - ArgCount + i)

\* what the call returned
Returned == Slot(M', sp - ArgCount - 1)

\* C17: (push l x) returns a new list equal to l with x appended; l and
\* every other existing list have the same elements afterwards, and the new
\* list shares its array with none of them, so that a later push! or pop!
\* on it changes no other list.
PushIsNonMutating ==
    [][(CallingBuiltin("push") /\ ArgCount = 2 /\ Arg(0).t = "LIST") =>
          /\ status' = "run"
          /\ Returned.t = "LIST"
          /\ Returned.addr \notin DOMAIN lists
          /\ Values(M', Returned.addr) = Append(Values(M, Arg(0).addr), Arg(1))
          /\ \A a \in DOMAIN lists :
                /\ Values(M', a) = Values(M, a)
                /\ lists'[a].arr # lists'[Returned.addr].arr]_vars

\* C18: (push! l x) returns the same list object l, which now ends in x;
\* (pop! l) removes and returns the last element of l, so that pop! right
\* after push! returns x and leaves l with its previous elements; pop! on an
\* empty list is an Error.
PushBangPopBangInverse ==
    [][/\ (CallingBuiltin("push!") /\ ArgCount = 2 /\ Arg(0).t = "LIST") =>
             /\ status' = "run"
             /\ Returned = Arg(0)
             /\ Values(M', Arg(0).addr) = Append(Values(M, Arg(0).addr), Arg(1))
       /\ (CallingBuiltin("pop!") /\ ArgCount = 1 /\ Arg(0).t = "LIST") =>
             LET elements == Values(M, Arg(0).addr) IN
             IF elements = <<>> THEN status' = "error"
             ELSE /\ status' = "run"
                  /\ Returned = elements[Len(elements)]
                  /\ Values(M', Arg(0).addr) = SubSeq(elements, 1, Len(elements) - 1)]_vars

\* what get returns for key k of dictionary d in machine m
GetOf(m, d, k) ==
    IF HashKey(k) \in DOMAIN m.dicts[d] THEN m.dicts[d][HashKey(k)].Value ELSE NULL_OBJ

\* hashable keys: a key is its type tag and its payload
KeySamples ==
    {Integer(1), Integer(2), Integer(3), TRUE_OBJ, FALSE_OBJ, String(<<97>>),
     String(ZeroHashString)}

ClosureEqualityByIdentity ==
    [][(CallingBuiltin("=") /\ ArgCount = 2
          /\ Arg(0).t = "CLOSURE" /\ Arg(1).t = "CLOSURE") =>
          /\ status' = "run"
          /\ Returned = IF Arg(0).addr = Arg(1).addr THEN TRUE_OBJ ELSE FALSE_OBJ]_vars

(***************************************************************************)
(* The operand stack and the frames.                                       *)
(***************************************************************************)
\* C21: builtins never modify the operand stack: a call of a builtin, a
\* push! on a list made by (list ...) included, leaves every live slot below
\* the slot of the callee, the arguments and locals of every active frame
\* among them, as it was; only the VM writes the result in the callee's slot.
BuiltinsLeaveStack ==
    [][(Calling /\ Callee.t = "FUNCTION") =>
          \A i \in 0..(sp - ArgCount - 2) : Slot(M', i) = Slot(M, i)]_vars

\* C26: for every frame on the frame stack basePointer + LocalsCount of the
\* frame's lambda is at most StackSize, so every local slot of the frame is
\* a slot of the operand stack.
LocalsFitStack ==
    \A i \in 1..Len(frames) :
        frames[i].basePointer + LambdaAt(closures[frames[i].Closure].Lambda).LocalsCount
            <= StackSize

(***************************************************************************)
(* Termination.  Run executes its fetch loop without waiting for anything; *)
(* it has stopped when the status is neither "compile" nor "run".          *)
(***************************************************************************)
Running == status \in {"compile", "run"}

\* C22: every Run terminates in one of two ways: a Run that has stopped has
\* completed normally or has returned a VM error, stack exhaustion on
\* unbounded recursion included.
RunTerminates == ~Running => status \in {"compile_error", "done", "error"}

(***************************************************************************)
(* What the compiler emits for a lambda.                                   *)
(***************************************************************************)
\* the instruction that loads a free symbol's original on the stack
GetterOf(sym) ==
    CASE sym.Scope = LocalScope -> <<OpGetLocal, sym.Index>>
      [] sym.Scope = FreeScope -> <<OpGetFree, sym.Index>>
      [] sym.Scope = FunctionScope -> <<OpCurrentClosure>>

RECURSIVE GettersOf(_, _)
GettersOf(syms, i) ==
    IF i > Len(syms) THEN <<>> ELSE GetterOf(syms[i]) \o GettersOf(syms, i + 1)

\* the FreeSymbols of the lambda that the OpClosure about to execute names
ClosureFreeSymbols == notes.free[ReadUint16(Ins, Ip + 1)]

\* C24: every Closure that OpClosure builds has as many Free values as the
\* symbol table of its lambda had FreeSymbols at the end of the lambda's
\* compilation; that number is the second operand of the OpClosure, and the
\* instructions right before the OpClosure are the getters of these symbols,
\* one each, in order.
ClosureFreeCount ==
    [][(Fetching /\ Op = OpClosure) =>
          LET getters == GettersOf(ClosureFreeSymbols, 1) IN
          /\ Ins[Ip + 4] = Len(ClosureFreeSymbols)
          /\ Ip >= Len(getters)
          /\ SubSeq(Ins, Ip - Len(getters) + 1, Ip) = getters
          /\ status' = "run"
          /\ Slot(M', sp' - 1) = ClosureRef(nextAddr)
          /\ Len(closures'[nextAddr].Free) = Len(ClosureFreeSymbols)]_vars

\* an OpClosure has built a Closure of two free values
ClosureFreeCountWitness ==
    /\ obs.op = OpClosure
    /\ status = "run"
    /\ Slot(M, sp - 1).t = "CLOSURE"
    /\ Len(closures[Slot(M, sp - 1).addr].Free) = 2
    /\ Len(notes.free[obs.index]) = 2

\* bytes of the instruction whose opcode is op
Width(op) == 1 + SumOf(definitions[op], 1)

\* Positions in ins: Len(ins) is the position past the end, Len(ins) + 1
\* stands for an instruction that cannot be decoded or a jump that does not
\* go forward inside ins, -1 for having returned.
PastEnd(ins) == Len(ins)
Undecodable(ins) == Len(ins) + 1

Decodable(ins, p) ==
    /\ p >= 0 /\ p < Len(ins)
    /\ ins[p + 1] \in DOMAIN definitions
    /\ p + Width(ins[p + 1]) <= Len(ins)

\* the position of the instruction that follows the one at p in the bytes
Following(ins, p) ==
    IF p < 0 \/ p >= Len(ins) THEN {}
    ELSE IF ~Decodable(ins, p) THEN {Undecodable(ins)}
    ELSE {p + Width(ins[p + 1])}

JumpTarget(ins, p) ==
    LET pos == ReadUint16(ins, p + 1) IN
    IF pos > p /\ pos <= Len(ins) THEN pos ELSE Undecodable(ins)

\* the positions that control can reach in one step from the instruction at p
Successors(ins, p) ==
    IF p < 0 \/ p >= Len(ins) THEN {}
    ELSE IF ~Decodable(ins, p) THEN {Undecodable(ins)}
    ELSE CASE ins[p + 1] = OpReturn -> {-1}
           [] ins[p + 1] = OpJump -> {JumpTarget(ins, p)}
           [] ins[p + 1] = OpJumpWhenFalse -> {p + 3, JumpTarget(ins, p)}
           [] OTHER -> {p + Width(ins[p + 1])}

\* the positions reachable from those in seen, new being the ones whose
\* successors have not been added yet; control follows jumps when flow holds
RECURSIVE ReachFrom(_, _, _, _)
ReachFrom(ins, flow, seen, new) ==
    LET next == UNION {IF flow THEN Successors(ins, p) ELSE Following(ins, p) : p \in new}
    IN IF next \subseteq seen THEN seen
       ELSE ReachFrom(ins, flow, seen \cup next, next \ seen)

\* the positions reachable from position 0, position 0 included
Reach(ins, flow) == ReachFrom(ins, flow, {0}, {0})

\* the positions at which the instructions of ins start
Starts(ins) == Reach(ins, FALSE) \ {PastEnd(ins), Undecodable(ins)}

\* the opcode of the last instruction of ins is op
LastOpcodeIs(ins, op) ==
    /\ Undecodable(ins) \notin Reach(ins, FALSE)
    /\ \E p \in Starts(ins) : ins[p + 1] = op /\ p + Width(op) = Len(ins)

\* every control path from position 0 reaches an OpReturn before the end
PathsReturn(ins) ==
    /\ PastEnd(ins) \notin Reach(ins, TRUE)
    /\ Undecodable(ins) \notin Reach(ins, TRUE)

\* ins holds an instruction with opcode op
HasOpcode(ins, op) == \E p \in Starts(ins) : ins[p + 1] = op

CompiledLambdas == {k \in 1..Len(constants) : constants[k].t = "COMPILED_FUNCTION_OBJ"}

\* C25: every CompiledLambda the compiler produces ends with OpReturn and
\* every control path through its instructions reaches an OpReturn, so that
\* a callee never runs past the end of its instructions: while a callee's
\* frame is the current frame there is a next instruction to fetch.
LambdasReturn ==
    /\ \A k \in CompiledLambdas :
          /\ LastOpcodeIs(constants[k].Instructions, OpReturn)
          /\ PathsReturn(constants[k].Instructions)
    /\ (status = "run" /\ Len(frames) > 1) => Fetching
    /\ status = "done" => Len(frames) = 1

\* a callee whose body holds an if has returned
LambdasReturnWitness ==
    /\ obs.op = OpReturn
    /\ status = "run"
    /\ \E k \in CompiledLambdas :
          /\ HasOpcode(constants[k].Instructions, OpJumpWhenFalse)
          /\ HasOpcode(constants[k].Instructions, OpJump)

\* what the instruction at position p adds to the stack pointer
StackEffect(ins, p) ==
    LET op == ins[p + 1] IN
    CASE op \in {OpConstant, OpTrue, OpFalse, OpNull, OpGetGlobal, OpGetLocal,
                 OpGetBuiltin, OpGetFree, OpCurrentClosure, OpEmptyList} -> 1
      [] op \in {OpSetGlobal, OpSetLocal} -> 0
      [] op \in {OpPop, OpJumpWhenFalse} -> -1
      [] op = OpCall -> 0 - ins[p + 2]
      [] op = OpClosure -> 1 - ins[p + 4]
      [] OTHER -> 0

\* The changes of the stack pointer that executing ins from position p to
\* position q can make, sum being the change so far.  At an OpJumpWhenFalse
\* either branch may run, control going on after the alternative; an OpJump
\* or OpReturn inside, or running past q, is the change -1000.
RECURSIVE Effects(_, _, _, _)
Effects(ins, p, q, sum) ==
    IF p = q THEN {sum}
    ELSE IF p > q \/ ~Decodable(ins, p) \/ ins[p + 1] \in {OpJump, OpReturn} THEN {-1000}
    ELSE IF ins[p + 1] = OpJumpWhenFalse THEN
        LET pos == ReadUint16(ins, p + 1)
            jumpPos == pos - 3
            end == IF jumpPos >= p + 3 /\ Decodable(ins, jumpPos) /\ ins[jumpPos + 1] = OpJump
                   THEN ReadUint16(ins, jumpPos + 1) ELSE -1
        IN IF end < pos \/ end > q THEN {-1000}
           ELSE UNION {Effects(ins, end, q, s) :
                          s \in Effects(ins, p + 3, jumpPos, sum - 1)
                                  \cup Effects(ins, pos, end, sum - 1)}
    ELSE Effects(ins, p + Width(ins[p + 1]), q, sum + StackEffect(ins, p))

\* C27: for (if c t e) exactly one branch runs and exactly one value is left
\* on the stack.  The operand of the OpJumpWhenFalse is the position of the
\* first instruction of the alternative, which follows the OpJump that ends
\* the consequence; the operand of that OpJump is the position of the first
\* instruction after the alternative; each branch leaves one value where the
\* condition was; and control goes to the consequence when the condition is
\* truthy, to the alternative otherwise.
IfRunsOneBranch ==
    [][(Fetching /\ Op = OpJumpWhenFalse /\ sp > 0) =>
          LET pos == ReadUint16(Ins, Ip + 1)
              jumpPos == pos - 3
              end == ReadUint16(Ins, jumpPos + 1)
          IN /\ jumpPos > Ip + 3
             /\ jumpPos \in Starts(Ins)
             /\ Ins[jumpPos + 1] = OpJump
             /\ {pos, end} \subseteq Starts(Ins)
             /\ end > pos
             /\ Effects(Ins, Ip + 3, jumpPos, 0) = {1}
             /\ Effects(Ins, pos, end, 0) = {1}
             /\ status' = "run"
             /\ sp' = sp - 1
             /\ frames'[Len(frames')].ip + 1 = IF Falsy(Top) THEN pos ELSE Ip + 3]_vars

\* the condition of an if without alternative was falsy: the OpNull that
\* stands for the alternative is the next instruction
IfRunsOneBranchWitness ==
    /\ obs.op = OpJumpWhenFalse
    /\ Falsy(obs.val)
    /\ Fetching
    /\ Ip = obs.pos
    /\ Op = OpNull
    /\ program > Len(Programs) - Len(AccessorPrograms) - Len(EvaluatorPrograms) - Len(IfPrograms)
    /\ program <= Len(Programs) - Len(AccessorPrograms) - Len(EvaluatorPrograms)

(***************************************************************************)
(* Redefinition.                                                           *)
(***************************************************************************)
\* (def x 1) (def f (lambda () x)) (def x 2) x
Redefining ==
    Program(<<Def("x", I(1)), Def("f", Lambda(<<>>, <<Id("x")>>)), Def("x", I(2)), Id("x")>>)

\* the bytecode of Redefining: f, compiled before x is defined again, reads
\* global 0; the x after it reads global 2
RedefiningKeepsEmitted ==
    LET b == Bytecode(Compile(New, Redefining)) IN
    /\ b.Constants[2].Instructions = Make(OpGetGlobal, <<0>>) \o Make(OpReturn, <<>>)
    /\ b.Instructions =
          Make(OpConstant, <<0>>) \o Make(OpSetGlobal, <<0>>) \o Make(OpPop, <<>>)
          \o Make(OpClosure, <<1, 0>>) \o Make(OpSetGlobal, <<1>>) \o Make(OpPop, <<>>)
          \o Make(OpConstant, <<2>>) \o Make(OpSetGlobal, <<2>>) \o Make(OpPop, <<>>)
          \o Make(OpGetGlobal, <<2>>) \o Make(OpPop, <<>>)

\* the call just made on the tables
Did(op) == symCalls'.op = op /\ symCalls'.n = symCalls.n + 1

\* C28: Define of a name, also of one that the table already holds, returns
\* a symbol whose index is the current count, increments the count and
\* binds the name to the new symbol, leaving the other names as they are;
\* every later Resolve of the name in that table returns the new symbol,
\* for Resolve returns what the store of the table holds and only a
\* definition of the name in that table changes it; and instructions
\* emitted before the redefinition keep the old index.
DefineShadows ==
    [][LET lvl == symCalls'.lvl
           name == symCalls'.name
       IN
       /\ Did("Define") =>
             /\ symCalls'.sym = Symbol(name, IF lvl = 1 THEN GlobalScope ELSE LocalScope,
                                       tables[lvl].count)
             /\ tables'[lvl].count = tables[lvl].count + 1
             /\ tables'[lvl].store[name] = symCalls'.sym
             /\ \A other \in DOMAIN tables[lvl].store \ {name} :
                   tables'[lvl].store[other] = tables[lvl].store[other]
       /\ (Did("Resolve") /\ name \in DOMAIN tables[lvl].store) =>
             /\ symCalls'.ok
             /\ symCalls'.sym = tables[lvl].store[name]
       /\ \A l \in 1..Len(tables) : \A s \in DOMAIN tables[l].store :
             (~(symCalls'.op \in {"Define", "DefineBuiltin", "DefineFunctionName"}
                  /\ lvl = l /\ name = s))
                => tables'[l].store[s] = tables[l].store[s]
       /\ RedefiningKeepsEmitted]_vars

\* a name defined twice in the root table, and nothing else defined there,
\* has been resolved: the symbol is the second one
DefineShadowsWitness ==
    /\ symCalls.op = "Resolve" /\ symCalls.lvl = 1 /\ symCalls.name = "a"
    /\ DOMAIN tables[1].store = {"a"}
    /\ tables[1].count = 2
    /\ symCalls.sym = Symbol("a", GlobalScope, 1)

(***************************************************************************)
(* Interned values.                                                        *)
(***************************************************************************)
\* a Boolean or Null is one of the three objects True, False and Null, and
\* the identity test of the VM and evalTruthy of the builtins agree on o
Interned(o) ==
    /\ o.t \in {"BOOL", "NULL"} => o \in {TRUE_OBJ, FALSE_OBJ, NULL_OBJ}
    /\ isTruthy(o) <=> evalTruthy(o)

\* C29: every Boolean and Null value that reaches the operand stack, a local
\* (a slot of the stack), a global or a free slot is one of the three
\* interned objects, so that the VM's identity-based isTruthy and the
\* builtins' value-based evalTruthy agree on every reachable value.
BooleansAreInterned ==
    /\ \A i \in DOMAIN stack : Interned(stack[i])
    /\ \A i \in DOMAIN globals : Interned(globals[i])
    /\ \A a \in DOMAIN closures :
          \A i \in 1..Len(closures[a].Free) : Interned(closures[a].Free[i])

\* the False that the builtin not returned has been tested by OpJumpWhenFalse
BooleansAreInternedWitness ==
    /\ obs.op = OpJumpWhenFalse
    /\ obs.val = FALSE_OBJ
    /\ status = "run"
    /\ obs.ip >= 2
    /\ Ins[obs.ip - 1] = OpCall
    /\ program = Len(Programs) - Len(AccessorPrograms) - Len(EvaluatorPrograms) - 1

(***************************************************************************)
(* Compilation scopes.                                                     *)
(***************************************************************************)
\* enterScope, two emits, leaveScope on the compiler c, as TestCompilerScopes
\* does: the emits go to the new scope's buffer only, and leaveScope brings
\* back the scopes, the scope index and the symbol table of c
ScopeRestored(c) ==
    LET inner == emit(emit(enterScope(c), OpTrue, <<>>), OpNull, <<>>)
        outer == leaveScope(inner)
    IN /\ inner.scopeIndex = c.scopeIndex + 1
       /\ Len(inner.symbolTable) = Len(c.symbolTable) + 1
       /\ currentInstructions(inner) = Make(OpTrue, <<>>) \o Make(OpNull, <<>>)
       /\ \A i \in 1..Len(c.scopes) : inner.scopes[i] = c.scopes[i]
       /\ outer.scopeIndex = c.scopeIndex
       /\ outer.scopes = c.scopes
       /\ outer.symbolTable = c.symbolTable

\* C30: enterScope followed by leaveScope restores the compiler's symbol
\* table and scope index, the instructions emitted in between go to the
\* inner scope's buffer only, and when Compile returns without error on a
\* program the scope index is 0, the active symbol table is the root table
\* and the bytecode is the buffer of scope 0.
ScopesBalanced ==
    [][status = "compile" =>
        LET c == Compile(New, Programs[program].ast) IN
        /\ ScopeRestored(New)
        /\ ScopeRestored(c)
        /\ ScopeRestored(emit(enterScope(c), OpPop, <<>>))
        /\ status' = "run" =>
              /\ c.err = NoError
              /\ c.scopeIndex = 0
              /\ Len(c.scopes) = 1
              /\ Len(c.symbolTable) = 1
              /\ instructions' = currentInstructions(c)]_vars

\* a program with a lambda inside a lambda has been compiled without error
ScopesBalancedWitness ==
    /\ status = "run"
    /\ Cardinality(DOMAIN notes.free) >= 2
    /\ \E i \in 1..Len(notes.refs) : Len(notes.refs[i].names) >= 2
    /\ Len(notes.names) = 0

(***************************************************************************)
(* evaluator: the tree-walking Evaluate.  Environments live in a heap      *)
(* envs, a sequence indexed by their address; outer = 0 is the nil outer.  *)
(***************************************************************************)
\* object.NewEnvironment(outer): the new environment has address Len(envs) + 1
NewEnvironment(envs, outer) == Append(envs, [outer |-> outer, values |-> <<>>])

RECURSIVE EnvironmentGet(_, _, _)
EnvironmentGet(envs, env, ident) ==
    IF ident \in DOMAIN envs[env].values THEN envs[env].values[ident]
    ELSE IF envs[env].outer # 0 THEN EnvironmentGet(envs, envs[env].outer, ident)
    ELSE ErrorObject(<<"No such item: ", ident>>)

EnvironmentSet(envs, env, ident, obj) ==
    [envs EXCEPT ![env].values = (ident :> obj) @@ @]

LambdaObject(args, env, body) == [t |-> "LAMBDA", Args |-> args, Env |-> env, Body |-> body]

\* the names of the evaluator's builtins map
EvaluatorBuiltinNames ==
    {"+", "*", "-", "/", "rem", "=", "<", ">", "not", "and", "or", "list", "dict",
     "first", "rest", "len", "push", "push!", "pop!", "str", "print", "get", "set"}

\* the deepest nesting of Evaluate that is followed
MaxEvalDepth == 30

\* Evaluate was not followed to its end: the nesting passed MaxEvalDepth, or
\* a builtin was called that is not among those translated here
Exhausted == [t |-> "exhausted"]
Unmodelled == [t |-> "unmodelled"]
Abandoned(obj) == obj.t \in {"exhausted", "unmodelled"}

\* obj.Type() == object.ERROR_OBJ
IsError(obj) == obj.t = "ERROR"

RECURSIVE SumFrom(_, _)
SumFrom(args, i) == IF i > Len(args) THEN 0 ELSE args[i].v + SumFrom(args, i + 1)

\* the first argument that is not a number, for badTypeError
FirstNonInteger(args) ==
    args[CHOOSE i \in 1..Len(args) :
            /\ args[i].t # "INTEGER"
            /\ \A j \in 1..(i - 1) : args[j].t = "INTEGER"]

\* builtins[name](env, args...) for "+", "-", "<" and "not"
EvaluatorBuiltin(name, args) ==
    LET n == Len(args)
        numbers == \A i \in 1..n : args[i].t = "INTEGER"
    IN
    CASE name = "+" ->
            IF ~numbers THEN BadTypeError("+", FirstNonInteger(args))
            ELSE Integer(SumFrom(args, 1))
      [] name = "-" ->
            IF n = 0 THEN NoArgsError("-")
            ELSE IF ~numbers THEN BadTypeError("-", FirstNonInteger(args))
            ELSE IF n = 1 THEN Integer(-args[1].v)
            ELSE Integer(args[1].v - SumFrom(args, 2))
      [] name = "<" ->
            IF n = 0 THEN WrongNumOfArgsError("<", "at least 1", 0)
            ELSE IF ~numbers THEN BadTypeError("<", FirstNonInteger(args))
            ELSE IF \E i \in 2..n : args[i].v <= args[i - 1].v THEN FALSE_OBJ
            ELSE TRUE_OBJ
      [] name = "not" ->
            IF n # 1 THEN WrongNumOfArgsError("not", "1", n)
            ELSE IF IsError(args[1]) THEN args[1]
            ELSE IF evalTruthy(args[1]) THEN FALSE_OBJ
            ELSE TRUE_OBJ
      [] OTHER -> Unmodelled

evalIdentifier(i, env, envs) ==
    CASE i.name = "true" -> TRUE_OBJ
      [] i.name = "false" -> FALSE_OBJ
      [] i.name = "null" -> NULL_OBJ
      [] i.name \in EvaluatorBuiltinNames -> [t |-> "FUNCTION", Name |-> i.name]
      [] OTHER -> EnvironmentGet(envs, env, i.name)

\* what Evaluate returns, and the heap of environments it leaves
Evaluated(obj, envs) == [val |-> obj, envs |-> envs]

RECURSIVE Evaluate(_, _, _, _)

\* the loop of a Program and of a lambda's Body: the first Error is
\* returned, otherwise the result of the last expression
RECURSIVE evaluateExpressions(_, _, _, _, _, _)
evaluateExpressions(exprs, i, env, envs, d, result) ==
    IF i > Len(exprs) THEN Evaluated(result, envs)
    ELSE LET r == Evaluate(exprs[i], env, envs, d) IN
         IF IsError(r.val) \/ Abandoned(r.val) THEN r
         ELSE evaluateExpressions(exprs, i + 1, env, r.envs, d, r.val)

\* the loop over e.Args: the first Error is returned in val
RECURSIVE evaluateArgs(_, _, _, _, _, _)
evaluateArgs(exprs, i, env, envs, d, args) ==
    IF i > Len(exprs) THEN [val |-> Nil, envs |-> envs, args |-> args]
    ELSE LET r == Evaluate(exprs[i], env, envs, d) IN
         IF IsError(r.val) \/ Abandoned(r.val)
         THEN [val |-> r.val, envs |-> r.envs, args |-> args]
         ELSE evaluateArgs(exprs, i + 1, env, r.envs, d, Append(args, r.val))

RECURSIVE SetArgs(_, _, _, _, _)
SetArgs(envs, env, names, args, i) ==
    IF i > Len(args) THEN envs
    ELSE SetArgs(EnvironmentSet(envs, env, names[i], args[i]), env, names, args, i + 1)

evalLambda(lambdaName, lambda, args, envs, d) ==
    IF Len(lambda.Args) # Len(args) THEN
        Evaluated(ErrorObject(<<"incorrect number of args for ", lambdaName>>), envs)
    ELSE
    LET lambdaEnv == Len(envs) + 1
        e1 == SetArgs(NewEnvironment(envs, lambda.Env), lambdaEnv, lambda.Args, args, 1)
    IN evaluateExpressions(lambda.Body, 1, lambdaEnv, e1, d, Nil)

evaluateIfExpression(e, env, envs, d) ==
    IF Len(e.Args) < 2 \/ Len(e.Args) > 3 THEN
        Evaluated(WrongNumOfArgsError("if", "2 or 3", Len(e.Args)), envs)
    ELSE
    LET r == Evaluate(e.Args[1], env, envs, d) IN
    IF IsError(r.val) \/ Abandoned(r.val) THEN r
    ELSE IF evalTruthy(r.val) THEN Evaluate(e.Args[2], env, r.envs, d)
    ELSE IF Len(e.Args) = 3 THEN Evaluate(e.Args[3], env, r.envs, d)
    ELSE Evaluated(NULL_OBJ, r.envs)

evaluateDefExpression(e, env, envs, d) ==
    IF Len(e.Args) # 2 THEN Evaluated(WrongNumOfArgsError("def", "2", Len(e.Args)), envs)
    ELSE IF e.Args[1].k # "id" THEN
        Evaluated(ErrorObject(<<"cannot assign to non-identifier">>), envs)
    ELSE
    LET r == Evaluate(e.Args[2], env, envs, d) IN
    IF IsError(r.val) \/ Abandoned(r.val) THEN r
    ELSE Evaluated(r.val, EnvironmentSet(r.envs, env, e.Args[1].name, r.val))

evaluateLambdaExpression(e, env, envs) ==
    IF Len(e.Args) < 2 THEN
        Evaluated(WrongNumOfArgsError("lambda", "at least 2", Len(e.Args)), envs)
    ELSE IF e.Args[1].k # "sexp" THEN
        Evaluated(ErrorObject(<<"lambda requires list of args">>), envs)
    ELSE
    LET argsList == e.Args[1]
        idents == (IF argsList.Fn.k # "nil" THEN <<argsList.Fn>> ELSE <<>>) \o argsList.Args
    IN
    IF \E i \in 1..Len(idents) : idents[i].k # "id" THEN
        Evaluated(ErrorObject(<<"lambda args must be identifiers">>), envs)
    ELSE Evaluated(LambdaObject([i \in 1..Len(idents) |-> idents[i].name], env,
                                SubSeq(e.Args, 2, Len(e.Args))), envs)

evaluateSExpression(e, env, envs, d) ==
    IF e.Fn.k = "nil" THEN Evaluated([t |-> "LIST", Values |-> <<>>], envs)
    ELSE
    CASE FnString(e.Fn) = "if" -> evaluateIfExpression(e, env, envs, d)
      [] FnString(e.Fn) = "def" -> evaluateDefExpression(e, env, envs, d)
      [] FnString(e.Fn) = "lambda" -> evaluateLambdaExpression(e, env, envs)
      [] OTHER ->
            LET fn == Evaluate(e.Fn, env, envs, d) IN
            IF Abandoned(fn.val) THEN fn ELSE
            LET a == evaluateArgs(e.Args, 1, env, fn.envs, d, <<>>) IN
            IF a.val.t # "nil" THEN Evaluated(a.val, a.envs)
            ELSE CASE fn.val.t = "FUNCTION" ->
                        Evaluated(EvaluatorBuiltin(fn.val.Name, a.args), a.envs)
                   [] fn.val.t = "LAMBDA" ->
                        evalLambda(FnString(e.Fn), fn.val, a.args, a.envs, d)
                   [] OTHER -> Evaluated(ErrorObject(<<"is not a function">>), a.envs)

Evaluate(e, env, envs, d) ==
    IF d = 0 THEN Evaluated(Exhausted, envs)
    ELSE
    CASE e.k = "program" -> evaluateExpressions(e.Expressions, 1, env, envs, d - 1, Nil)
      [] e.k = "int" -> Evaluated(Integer(e.v), envs)
      [] e.k = "str" -> Evaluated(String(e.s), envs)
      [] e.k = "id" -> Evaluated(evalIdentifier(e, env, envs), envs)
      [] e.k = "sexp" -> evaluateSExpression(e, env, envs, d - 1)
      [] OTHER -> Evaluated(NULL_OBJ, envs)

(***************************************************************************)
(* The evaluator and the compiled pipeline.                                *)
(***************************************************************************)
\* e is built of integer literals, identifiers, def, if, lambda and calls
RECURSIVE SharedFragment(_)
SharedFragment(e) ==
    CASE e.k = "program" ->
            \A i \in 1..Len(e.Expressions) : SharedFragment(e.Expressions[i])
      [] e.k = "int" -> TRUE
      [] e.k = "id" -> e.name \notin {"true", "false", "null"}
      [] e.k = "sexp" ->
            /\ e.Fn.k \in {"id", "sexp"}
            /\ e.Fn.k = "sexp" => SharedFragment(e.Fn)
            /\ \A i \in 1..Len(e.Args) :
                  \/ SharedFragment(e.Args[i])
                  \* the parameter list of a lambda
                  \/ /\ FnString(e.Fn) = "lambda" /\ i = 1
                     /\ e.Args[i].k = "sexp"
                     /\ e.Args[i].Fn.k \in {"id", "nil"}
                     /\ \A j \in 1..Len(e.Args[i].Args) : e.Args[i].Args[j].k = "id"
      [] OTHER -> FALSE

\* Evaluate(program, object.NewEnvironment(nil))
EvaluateProgram ==
    Evaluate(Programs[program].ast, 1, NewEnvironment(<<>>, 0), MaxEvalDepth).val

\* the evaluator's value and the VM's are equal
EqualValue(a, b) ==
    CASE a.t = "INTEGER" -> b.t = "INTEGER" /\ a.v = b.v
      [] a.t = "BOOL" -> b.t = "BOOL" /\ a.b = b.b
      [] a.t = "NULL" -> b.t = "NULL"
      [] a.t = "LAMBDA" -> b.t = "CLOSURE"
      [] a.t = "FUNCTION" -> b.t = "FUNCTION" /\ a.Name = b.Name
      [] OTHER -> FALSE

\* Evaluate returns a value that is not an Error for the program
EvaluatesToValue ==
    /\ SharedFragment(Programs[program].ast)
    /\ EvaluateProgram.t \notin {"ERROR", "exhausted", "unmodelled", "nil"}

\* C23: for every program over the shared fragment on which Evaluate returns
\* a value that is not an Error, the compilation and the run of the VM
\* succeed and LastPoppedStackElem is an equal value.
EvaluatorSubsumed ==
    (~Running /\ EvaluatesToValue) =>
        /\ status = "done"
        /\ EqualValue(EvaluateProgram, LastPoppedStackElem)

(***************************************************************************)
(* Reads of globals and locals.                                            *)
(***************************************************************************)
\* the slot that the OpGetGlobal or OpGetLocal about to run reads
ReadsGlobal == Fetching /\ Op = OpGetGlobal
ReadsLocal == Fetching /\ Op = OpGetLocal /\ currentFrame(M).basePointer + Ins[Ip + 2] < StackSize
LocalRead == Slot(M, currentFrame(M).basePointer + Ins[Ip + 2])

\* C31: every OpGetGlobal reads a global that an earlier OpSetGlobal wrote
\* and every OpGetLocal reads a slot that holds a value: the VM never pushes
\* the nil of a slot that was never assigned.
GetsReadAssignedSlots ==
    [][/\ ReadsGlobal => ReadUint16(Ins, Ip + 1) \in DOMAIN globals
       /\ ReadsLocal => LocalRead.t # "nil"]_vars

(***************************************************************************)
(* The elements of a List.                                                 *)
(***************************************************************************)
\* the instruction about to run applies push! or pop! to the list at a
MutatesList(a) ==
    /\ CallingBuiltin("push!") \/ CallingBuiltin("pop!")
    /\ ArgCount >= 1
    /\ Arg(0) = List(a)

\* C32: a List keeps the elements it was built from: a VM instruction that
\* does not apply push! or pop! to the list leaves the elements of every
\* list stored in a global unchanged.
ListsKeepElements ==
    [][\A g \in DOMAIN globals :
          (globals[g].t = "LIST" /\ ~MutatesList(globals[g].addr))
              => Values(M', globals[g].addr) = Values(M, globals[g].addr)]_vars

(***************************************************************************)
(* The symbol table of the REPL after a compile error.                     *)
(***************************************************************************)
\* the line that is read now is answered with a compiler error
CompileFails ==
    /\ status = "read"
    /\ line' = line + 1
    /\ Len(out') = Len(out) + 1
    /\ out'[Len(out')].kind = "compiler error"

\* C33: when Compile returns an error for a line of the REPL, the symbol
\* table that the REPL keeps is unchanged, so no name that the failing line
\* introduced resolves on a later line.
CompileErrorKeepsSymbolTable ==
    [][CompileFails => symbolTable' = symbolTable]_vars

(***************************************************************************)
(* main: runCompiled, the file mode with the vm engine.  out is what the   *)
(* process writes, to stderr (the errors) and to stdout (the result).      *)
(***************************************************************************)
\* runCompiled up to the call of Run: a compile error is written and the VM
\* is made all the same, of c.Bytecode(), the instructions of the scope
\* that the compiler was in when it returned
RunCompiled ==
    /\ status = "compile"
    /\ LET c == Compile(New, Programs[program].ast) IN
       /\ notes' = c.notes
       /\ out' = IF c.err # NoError THEN Append(out, Written("compiler error", c.err))
                 ELSE out
       /\ status' = "run"
       /\ err' = NoError
       /\ constants' = Bytecode(c).Constants
       /\ instructions' = Bytecode(c).Instructions
       /\ frames' = <<NewFrame(nextAddr, 0)>>
       /\ closures' = (nextAddr :> Closure(MainLambda, <<>>))
       /\ nextAddr' = nextAddr + 1
    /\ UNCHANGED <<program, stack, sp, globals, lists, arrays, dicts, obs, calls, stmtSp>>
    /\ UNCHANGED <<session, line, symbolTable, unitVars>>

\* runCompiled after Run returned: the error of the VM is written, and
\* LastPoppedStackElem is printed in either case
RunCompiledPrints ==
    /\ status \in {"done", "error"}
    /\ out' = (IF status = "error" THEN Append(out, Written("vm error", err)) ELSE out)
                 \o <<Written("result", LastPoppedStackElem)>>
    /\ status' = "exit"
    /\ UNCHANGED <<program, err, constants, instructions, stack, sp, globals, frames,
                   closures, lists, arrays, dicts, nextAddr, notes, obs, calls, stmtSp,
                   session, line, symbolTable, unitVars>>

FileNext ==
    \/ RunCompiled
    \/ RunCompiledPrints
    \/ OpConstantStep
    \/ OpPopStep
    \/ OpTrueStep
    \/ OpFalseStep
    \/ OpNullStep
    \/ OpJumpStep
    \/ OpJumpWhenFalseStep
    \/ OpSetGlobalStep
    \/ OpGetGlobalStep
    \/ OpSetLocalStep
    \/ OpGetLocalStep
    \/ OpGetBuiltinStep
    \/ OpCallClosureStep
    \/ OpCallBuiltinStep
    \/ OpCallOtherStep
    \/ OpReturnStep
    \/ OpEmptyListStep
    \/ OpClosureStep
    \/ OpGetFreeStep
    \/ OpCurrentClosureStep
    \/ RunReturns

FileSpec == Init /\ [][FileNext]_vars

\* Compile returned an error
CompileFailed == Len(out) > 0 /\ out[1].kind = "compiler error"

\* C34: in file mode with the vm engine the VM runs the bytecode of a
\* compilation without error only: when Compile fails, no instruction of
\* the partly built bytecode is executed and no result is printed.
NoRunAfterCompileError ==
    CompileFailed =>
        /\ obs.op = NoObs.op
        /\ \A i \in 1..Len(out) : out[i].kind # "result"

(***************************************************************************)
(* first, rest and last.                                                   *)
(***************************************************************************)
\* the instruction about to run applies first, rest or last to an empty list
AccessesEmptyList ==
    /\ CallingBuiltin("first") \/ CallingBuiltin("rest") \/ CallingBuiltin("last")
    /\ ArgCount = 1
    /\ Arg(0).t = "LIST"
    /\ lists[Arg(0).addr].len = 0

\* C35: first, rest and last applied to an empty list return a value (Null,
\* an empty list or an Error) and the run goes on: no access out of range.
AccessorsOfEmptyListReturn ==
    [][AccessesEmptyList =>
          /\ status' = "run"
          /\ Returned.t \in {"NULL", "LIST", "ERROR"}]_vars

(***************************************************************************)
(* get and set.                                                            *)
(***************************************************************************)
\* the instruction about to run calls get or set on a dictionary with a
\* wrong number of arguments or with a key that is not Hashable
BadGet ==
    /\ CallingBuiltin("get")
    /\ ArgCount >= 1 /\ Arg(0).t = "DICT"
    /\ ArgCount # 2 \/ ~Hashable(Arg(1))
BadSet ==
    /\ CallingBuiltin("set")
    /\ ArgCount >= 1 /\ Arg(0).t = "DICT"
    /\ ArgCount # 3 \/ ~Hashable(Arg(1))

\* C36: get and set return an Error when they are called with a wrong
\* number of arguments or with a key that is not Hashable, the run goes on,
\* and set leaves the dictionary as it was.
GetSetReturnErrors ==
    [][(BadGet \/ BadSet) =>
          /\ status' = "run"
          /\ Returned.t = "ERROR"
          /\ dicts' = dicts]_vars

(***************************************************************************)
(* The list of rest and its argument.                                      *)
(***************************************************************************)
\* of the lists a and b one is the rest of the other (or the rest of its
\* rest): slices of the same array that start at different offsets
RestOf(a, b) ==
    /\ a # b
    /\ lists[a].arr = lists[b].arr
    /\ lists[a].arr # NilArray
    /\ lists[a].off # lists[b].off

\* C37: the list that rest returns is independent of its argument: a push!
\* or pop! on one of the two leaves the elements of the other unchanged.
RestIsIndependent ==
    [][\A a \in DOMAIN lists :
          MutatesList(a) =>
             \A b \in DOMAIN lists :
                RestOf(a, b) => Values(M', b) = Values(M, b)]_vars

(***************************************************************************)
(* Jump targets.                                                           *)
(***************************************************************************)
\* the operand that compileIfExpression emits before it knows the target
Placeholder == 9999

\* every OpJump and OpJumpWhenFalse of ins has a target after its own
\* offset that is the start of an instruction of ins
JumpsForward(ins) ==
    /\ Undecodable(ins) \notin Reach(ins, FALSE)
    /\ \A p \in Starts(ins) :
          ins[p + 1] \in {OpJump, OpJumpWhenFalse} =>
             /\ ReadUint16(ins, p + 1) > p
             /\ ReadUint16(ins, p + 1) \in Starts(ins)
             /\ ReadUint16(ins, p + 1) # Placeholder

\* the instruction sequences of the bytecode
Sequences == {instructions} \cup {constants[k].Instructions : k \in CompiledLambdas}

\* C38: in the bytecode of a Compile without error every OpJump and
\* OpJumpWhenFalse operand is greater than the offset of the jump and is
\* the start of an instruction of the same sequence, no placeholder 9999 is
\* left, and within one frame ip moves forward only.
JumpTargetsAhead ==
    [][/\ status' = "run" => \A ins \in Sequences' : JumpsForward(ins)
       /\ (Fetching /\ status' = "run" /\ Len(frames') = Len(frames))
             => currentFrame(M').ip > currentFrame(M).ip]_vars

\* a jump has been taken in the frame of a lambda whose instructions hold
\* both kinds of jump
JumpTargetsAheadWitness ==
    /\ status = "run"
    /\ obs.op = OpJump
    /\ Len(frames) > 1
    /\ HasOpcode(Ins, OpJumpWhenFalse)
    /\ HasOpcode(instructions, OpCall)

(***************************************************************************)
(* compiler: one lambda compiled an expression at a time                   *)
(*                                                                         *)
(* The programs are (lambda () (def x 1) ... (def x 1) x) and              *)
(* (lambda () (list 1 ... 1)), with any number of definitions and of       *)
(* arguments up to MaxExprs.  status is the position of the compiler in    *)
(* compileLambdaExpression and compileCallExpression, line the number of   *)
(* definitions or arguments compiled so far, tables the chain of symbol    *)
(* tables, instructions the currentInstructions of the compiler, and made  *)
(* the last instruction with operands that emit appended: the operands the *)
(* compiler passed to Make and the operands ReadOperands decodes.          *)
(***************************************************************************)
\* definitions in one body, arguments in one call
MaxExprs == 257

\* the compiler inside the lambda, bound by each step as the one element
\* of a set; no step reads lastInstruction or previousInstruction before
\* emit has set them
CompilerInLambda ==
    [New EXCEPT !.constants = constants,
                !.symbolTable = tables,
                !.scopes = <<CompilationScope,
                             [CompilationScope EXCEPT !.instructions = instructions]>>,
                !.scopeIndex = 1,
                !.notes = notes]

\* the instruction at pos of ins, with the operands emit was given for it
EmittedAt(ins, pos, operands) ==
    LET op == ins[pos + 1]
        r == ReadOperands(definitions[op], SubSeq(ins, pos + 2, Len(ins)))
    IN [op |-> op, operands |-> operands,
        ins |-> SubSeq(ins, pos + 1, pos + 1 + r.offset),
        read |-> r.operands, offset |-> r.offset]

\* the state after a step that left the compiler as c
Compiled(c, position, n, emitted) ==
    /\ status' = IF c.err # <<>> THEN "compile_error" ELSE position
    /\ err' = c.err
    /\ constants' = c.constants
    /\ instructions' = currentInstructions(c)
    /\ tables' = c.symbolTable
    /\ notes' = c.notes
    /\ line' = n
    /\ made' = emitted
    /\ UNCHANGED <<program, stack, sp, globals, frames, closures, lists, arrays, dicts,
                   nextAddr, obs, calls, stmtSp, session, symbolTable, out, symCalls>>

\* New(), then compileLambdaExpression up to the loop over the body
WidthInit ==
    /\ program = 0 /\ status = "body" /\ err = NoError
    /\ constants = <<>> /\ instructions = <<>>
    /\ stack = <<>> /\ sp = 0 /\ globals = <<>> /\ frames = <<>>
    /\ closures = <<>> /\ lists = <<>> /\ arrays = <<>> /\ dicts = <<>>
    /\ nextAddr = 1 /\ obs = NoObs /\ calls = <<>> /\ stmtSp = 0
    /\ session = 0 /\ line = 0 /\ symbolTable = NewSymbolTable /\ out = <<>>
    /\ notes = noteEnter(enterScope(New), "").notes
    /\ tables = enterScope(New).symbolTable
    /\ symCalls = NoCalls
    /\ made = NoInstruction

\* one turn of the loop over the body: (def x 1), then OpPop
CompileLocalDef ==
    /\ status = "body" /\ line < MaxExprs
    /\ \E c \in {compileBody(CompilerInLambda, <<Def("x", I(1))>>, 1)} :
       \E symbol \in {Define(tables, Len(tables), "x").sym} :
          Compiled(c, "body", line + 1,
                   EmittedAt(currentInstructions(c),
                             c.scopes[c.scopeIndex + 1].previousInstruction.Position,
                             <<symbol.Index>>))

\* the last turn of the loop over the body: x, then OpPop
CompileLocalRef ==
    /\ status = "body" /\ line > 0
    /\ \E c \in {compileBody(CompilerInLambda, <<Id("x")>>, 1)} :
       \E symbol \in {Resolve(tables, Len(tables), "x").sym} :
          Compiled(c, "last", line,
                   EmittedAt(currentInstructions(c),
                             c.scopes[c.scopeIndex + 1].previousInstruction.Position,
                             <<symbol.Index>>))

\* compileCallExpression: c.Compile(expr.Fn) of (list 1 ... 1)
CompileCallee ==
    /\ status = "body" /\ line = 0
    /\ \E c \in {Compile(CompilerInLambda, Id("list"))} :
       \E symbol \in {Resolve(tables, Len(tables), "list").sym} :
          Compiled(c, "args", 0,
                   EmittedAt(currentInstructions(c),
                             c.scopes[c.scopeIndex + 1].lastInstruction.Position,
                             <<symbol.Index>>))

\* compileCallExpression: one turn of the loop over expr.Args
CompileArg ==
    /\ status = "args" /\ line < MaxExprs
    /\ \E c \in {Compile(CompilerInLambda, I(1))} :
          Compiled(c, "args", line + 1,
                   EmittedAt(currentInstructions(c),
                             c.scopes[c.scopeIndex + 1].lastInstruction.Position,
                             <<Len(constants)>>))

\* compileCallExpression: c.emit(code.OpCall, len(expr.Args)), then the
\* OpPop of the loop over the body
EmitCall ==
    /\ status = "args"
    /\ \E c \in {emit(emit(CompilerInLambda, OpCall, <<line>>), OpPop, <<>>)} :
          Compiled(c, "last", line,
                   EmittedAt(currentInstructions(c),
                             c.scopes[c.scopeIndex + 1].previousInstruction.Position,
                             <<line>>))

\* compileLambdaExpression after the loop over the body, then the OpPop of
\* the program
FinishLambda ==
    /\ status = "last"
    /\ \E c4 \in {CompilerInLambda} :
       \E c5 \in {replaceInstruction(c4, Len(currentInstructions(c4)) - 1, <<OpReturn>>)} :
       \E freeSymbols \in {c5.symbolTable[Len(c5.symbolTable)].FreeSymbols} :
       \E localsCount \in {c5.symbolTable[Len(c5.symbolTable)].count} :
       \E c6 \in {noteLeave(leaveScope(c5), Len(c5.constants), freeSymbols)} :
       \E compiledLambda \in {CompiledLambda(currentInstructions(c5), localsCount, 0)} :
       \E c7 \in {getSymbols(c6, freeSymbols, 1)} :
       \E c8 \in {emit(emit(addConstant(c7, compiledLambda), OpClosure,
                            <<Len(c7.constants), Len(freeSymbols)>>),
                       OpPop, <<>>)} :
          Compiled(c8, "compiled", line,
                   EmittedAt(currentInstructions(c8),
                             c8.scopes[c8.scopeIndex + 1].previousInstruction.Position,
                             <<Len(c7.constants), Len(freeSymbols)>>))

WidthNext ==
    \/ CompileLocalDef
    \/ CompileLocalRef
    \/ CompileCallee
    \/ CompileArg
    \/ EmitCall
    \/ FinishLambda

WidthSpec == WidthInit /\ [][WidthNext]_vars

\* C39: while the compiler reports no error, the operands ReadOperands
\* decodes from the instruction emit appended are the operands the compiler
\* passed to Make: no local index, argument count or constant index is
\* reduced modulo 2^8 or 2^16.
OperandsFitWidths ==
    (err = NoError /\ made.op # -1) => made.read = made.operands

\* the lambda with MaxExprs definitions is compiled without an error, into
\* a function with MaxExprs locals
WideLambdaAccepted ==
    /\ status = "compiled" /\ err = NoError /\ line = MaxExprs
    /\ constants[Len(constants)].LocalsCount = MaxExprs

====
